---- MODULE Spec2Model ----
(***************************************************************************)
(* tokio-binance: the typed request-construction / signing pipeline        *)
(* (src/param.rs, src/builder.rs, src/types.rs, src/client/*.rs) and the   *)
(* WebSocket channel protocol layer (src/ws_stream.rs).                    *)
(*                                                                         *)
(* Conventions                                                             *)
(*   Option<T>      None is <<>>, Some(v) is <<v>>.                        *)
(*   f64            a number of tenths (305 is 30.5), formatted by FmtF64. *)
(*   wire values    [text |-> s] for rendered text, and for the hex HMAC   *)
(*                  digest the free term [hmac_sha256_hex |-> [key, msg]]. *)
(*   query string / form body   the sequence of [name, value] pairs that   *)
(*                  serde_urlencoded writes, in the order it writes them.  *)
(***************************************************************************)
EXTENDS Integers, Sequences, FiniteSets, TLC

VARIABLES
    now,        \* the wall clock read by Utc::now(), in milliseconds
    phase,      \* "idle" | "building" | "consumed": life of the one ParamBuilder
    pb,         \* Option<ParamBuilder>: params, method, api_key, secret_key, kind
    builtAt,    \* clock reading when the endpoint constructor ran
    signs,      \* number of Parameters::sign calls made on pb's record
    request,    \* Option<Request>: the request handed to Client::execute
    sentAt,     \* Option<clock reading> of the step that built and sent request
    response,   \* Option<result of ParamBuilder::response>
    outcome,    \* Option<result of ParamBuilder::text / json>
    reply,      \* Option<what the network answered to request>
    warnings,   \* statuses logged through warn! by the current dispatch
    ws,         \* Option<WebSocketStream>: the handle and its id field
    wsPhase,    \* "init" | "open" | "connect_failed" | "closing" | "closed": the session
    wire,       \* frames handed to the transport sink, oldest first
    lastSend,   \* Option<result of the last connect / subscribe / unsubscribe / close>
    lastRead,   \* Option<result of the last WebSocketStream::text / json>
    lastCall,   \* Option<arguments of the last subscribe / unsubscribe>
    inbox,      \* items the transport holds for try_next(), oldest first
    lastIn      \* Option<what try_next() yielded to the last text / json call>

restVars == <<now, phase, pb, builtAt, signs, request, sentAt, response, outcome, reply, warnings>>
wsVars == <<ws, wsPhase, wire, lastSend, lastRead, lastCall, inbox, lastIn>>
vars == <<now, phase, pb, builtAt, signs, request, sentAt, response, outcome, reply, warnings,
          ws, wsPhase, wire, lastSend, lastRead, lastCall, inbox, lastIn>>

None == <<>>
Some(v) == <<v>>

(***************************************************************************)
(* Bounds of the model.                                                    *)
(***************************************************************************)
MaxClock == 1
MaxWire == 3
MaxReads == 2
MaxInbox == 2

(***************************************************************************)
(* Parameter Record (src/param.rs)                                         *)
(***************************************************************************)
\* struct Parameters: the fields in declaration order, which is the order
\* serde serializes them in.
FieldOrder ==
    << "symbol", "limit", "from_id", "start_time", "end_time", "interval", "side",
       "order_type", "time_in_force", "quantity", "price", "new_client_order_id",
       "stop_price", "iceberg_qty", "new_order_resp_type", "order_id",
       "orig_client_order_id", "list_client_order_id", "limit_client_order_id",
       "stop_client_order_id", "limit_iceberg_qty", "stop_iceberg_qty",
       "stop_limit_price", "stop_limit_time_in_force", "order_list_id", "listen_key",
       "address", "address_tag", "name", "asset", "status", "email", "page",
       "from_email", "to_email", "amount", "recv_window", "timestamp", "signature" >>

Fields == { FieldOrder[i] : i \in 1..Len(FieldOrder) }

\* #[serde(rename_all = "camelCase")] with #[serde(rename = "type")] on order_type
WireName ==
    [ symbol |-> "symbol", limit |-> "limit", from_id |-> "fromId",
      start_time |-> "startTime", end_time |-> "endTime", interval |-> "interval",
      side |-> "side", order_type |-> "type", time_in_force |-> "timeInForce",
      quantity |-> "quantity", price |-> "price",
      new_client_order_id |-> "newClientOrderId", stop_price |-> "stopPrice",
      iceberg_qty |-> "icebergQty", new_order_resp_type |-> "newOrderRespType",
      order_id |-> "orderId", orig_client_order_id |-> "origClientOrderId",
      list_client_order_id |-> "listClientOrderId",
      limit_client_order_id |-> "limitClientOrderId",
      stop_client_order_id |-> "stopClientOrderId",
      limit_iceberg_qty |-> "limitIcebergQty", stop_iceberg_qty |-> "stopIcebergQty",
      stop_limit_price |-> "stopLimitPrice",
      stop_limit_time_in_force |-> "stopLimitTimeInForce",
      order_list_id |-> "orderListId", listen_key |-> "listenKey",
      address |-> "address", address_tag |-> "addressTag", name |-> "name",
      asset |-> "asset", status |-> "status", email |-> "email", page |-> "page",
      from_email |-> "fromEmail", to_email |-> "toEmail", amount |-> "amount",
      recv_window |-> "recvWindow", timestamp |-> "timestamp",
      signature |-> "signature" ]

\* The Rust type of each field decides how its value is written.
StrFields == { "symbol", "new_client_order_id", "orig_client_order_id",
               "list_client_order_id", "limit_client_order_id", "stop_client_order_id",
               "listen_key", "address", "address_tag", "name", "asset", "email",
               "from_email", "to_email" }
IntFields == { "limit", "from_id", "start_time", "end_time", "order_id",
               "order_list_id", "page", "recv_window", "timestamp" }
F64Fields == { "quantity", "price", "stop_price", "iceberg_qty", "limit_iceberg_qty",
               "stop_iceberg_qty", "stop_limit_price", "amount" }
TifFields == { "time_in_force", "stop_limit_time_in_force" }

\* enum Side, #[serde(rename_all = "UPPERCASE")]
Side == [ Buy |-> "BUY", Sell |-> "SELL" ]

\* enum OrderType, #[serde(rename_all = "SCREAMING_SNAKE_CASE")]
OrderType ==
    [ Limit |-> "LIMIT", Market |-> "MARKET", StopLoss |-> "STOP_LOSS",
      StopLossLimit |-> "STOP_LOSS_LIMIT", TakeProfit |-> "TAKE_PROFIT",
      TakeProfitLimit |-> "TAKE_PROFIT_LIMIT", LimitMaker |-> "LIMIT_MAKER" ]

\* enum TimeInForce, #[serde(rename_all = "UPPERCASE")]
TimeInForce == [ Gtc |-> "GTC", Ioc |-> "IOC", Fok |-> "FOK" ]

\* enum OrderRespType, #[serde(rename_all = "UPPERCASE")]
OrderRespType == [ Ack |-> "ACK", Result |-> "RESULT", Full |-> "FULL" ]

\* enum Interval, one #[serde(rename = ...)] per variant
Interval ==
    [ OneMinute |-> "1m", ThreeMinutes |-> "3m", FiveMinutes |-> "5m",
      FifTeenMinutes |-> "15m", ThirtyMinutes |-> "30m", OneHour |-> "1h",
      TwoHours |-> "2h", FourHours |-> "4h", SixHours |-> "6h", EightHours |-> "8h",
      TwelveHours |-> "12h", OneDay |-> "1d", ThreeDays |-> "3d", OneWeek |-> "1w",
      OneMonth |-> "1M" ]

\* Parameters::default(): every field None
DefaultParameters == [ f \in Fields |-> None ]

\* Parameters { f1: v1, ..., ..Parameters::default() }; given is a record of the
\* fields written in the struct literal (each an Option).
ParametersWith(given) ==
    [ f \in Fields |-> IF f \in DOMAIN given THEN given[f] ELSE None ]

Text(s) == [ text |-> s ]

\* Variant of FmtF64: a whole number is written without a fractional part.
FmtF64_trimmed(tenths) ==
    IF tenths % 10 = 0 THEN ToString(tenths \div 10)
    ELSE ToString(tenths \div 10) \o "." \o ToString(tenths % 10)

\* Display of an f64 as serde_urlencoded writes it: the shortest decimal that
\* round-trips, which always has a fractional part (1.0 is "1.0", 30.5 is "30.5").
FmtF64(tenths) == ToString(tenths \div 10) \o "." \o ToString(tenths % 10)

\* serde_json::Value values reachable through with_status<J: Into<Value>>
JsonValues ==
    { [ json |-> "Number", n |-> 1 ], [ json |-> "String", s |-> "1" ],
      [ json |-> "Array" ] }

\* serde_urlencoded's value serializer accepts scalars only: a Value that is
\* Null, an Array or an Object is rejected ("unsupported value").
ValueSupported(f, v) ==
    f = "status" => v.json \in { "Number", "String", "Bool" }

\* Variant of RenderValue: an f64 is written without its fractional part.
RenderValue_truncated(f, v) ==
    CASE f \in StrFields -> Text(v)
      [] f \in IntFields -> Text(ToString(v))
      [] f \in F64Fields -> Text(ToString(v \div 10))
      [] f \in TifFields -> Text(TimeInForce[v])
      [] f = "interval" -> Text(Interval[v])
      [] f = "side" -> Text(Side[v])
      [] f = "order_type" -> Text(OrderType[v])
      [] f = "new_order_resp_type" -> Text(OrderRespType[v])
      [] f = "status" -> IF v.json = "Number" THEN Text(ToString(v.n)) ELSE Text(v.s)
      [] f = "signature" -> v

\* The serde Serialize implementation of each field type.
RenderValue(f, v) ==
    CASE f \in StrFields -> Text(v)
      [] f \in IntFields -> Text(ToString(v))
      [] f \in F64Fields -> Text(FmtF64(v))
      [] f \in TifFields -> Text(TimeInForce[v])
      [] f = "interval" -> Text(Interval[v])
      [] f = "side" -> Text(Side[v])
      [] f = "order_type" -> Text(OrderType[v])
      [] f = "new_order_resp_type" -> Text(OrderRespType[v])
      [] f = "status" -> IF v.json = "Number" THEN Text(ToString(v.n)) ELSE Text(v.s)
      [] f = "signature" -> v

RECURSIVE SerializeFrom(_, _)
SerializeFrom(p, i) ==
    IF i > Len(FieldOrder) THEN <<>>
    ELSE LET f == FieldOrder[i]
         IN (IF p[f] = None THEN <<>>
             ELSE << [ name |-> WireName[f], value |-> RenderValue(f, p[f][1]) ] >>)
            \o SerializeFrom(p, i + 1)

\* Variant of to_string: a value that is not a scalar is left out.
to_string_lenient(p) ==
    [ ok |-> TRUE,
      val |-> SerializeFrom([ f \in Fields |->
                                IF p[f] # None /\ ~ValueSupported(f, p[f][1])
                                THEN None ELSE p[f] ], 1) ]

\* serde_urlencoded::to_string(&Parameters): Ok(pairs of the present fields in
\* declaration order) or Err when a present value is not a scalar.
to_string(p) ==
    IF \E f \in Fields : p[f] # None /\ ~ValueSupported(f, p[f][1])
    THEN [ ok |-> FALSE, err |-> "SerdeUrlEncoded" ]
    ELSE [ ok |-> TRUE, val |-> SerializeFrom(p, 1) ]

\* HmacSha256::new_varkey(secret) ; update(message) ; finalize ; hex::encode.
\* HMAC takes a key of any length, so new_varkey never returns InvalidKeyLength.
HmacSha256Hex(secret, message) ==
    [ hmac_sha256_hex |-> [ key |-> secret, message |-> message ] ]

\* Variant of UtcNow: the clock reading taken when the builder was constructed.
UtcNowAtConstruction == builtAt

\* Utc::now().timestamp_millis()
UtcNow == now

\* Variant of sign: the message is serialized before the timestamp is stamped.
sign_before_stamp(p, secret) ==
    LET message == to_string(p)
        stamped == [ p EXCEPT !["timestamp"] = Some(UtcNow) ]
    IN  IF ~message.ok
        THEN [ ok |-> FALSE, err |-> message.err, params |-> stamped ]
        ELSE [ ok |-> TRUE,
               params |-> [ stamped EXCEPT
                              !["signature"] = Some(HmacSha256Hex(secret, message.val)) ] ]

\* Variant of sign: the key itself is stored where the digest belongs.
sign_unhashed(p, secret) ==
    LET stamped == [ p EXCEPT !["timestamp"] = Some(UtcNow) ]
        message == to_string(stamped)
    IN  IF ~message.ok
        THEN [ ok |-> FALSE, err |-> message.err, params |-> stamped ]
        ELSE [ ok |-> TRUE,
               params |-> [ stamped EXCEPT !["signature"] = Some(Text(secret)) ] ]

\* Parameters::sign(&mut self, secret).  params is the record as the call leaves
\* it, also when the call returns Err.
sign(p, secret) ==
    LET stamped == [ p EXCEPT !["timestamp"] = Some(UtcNow) ]
        message == to_string(stamped)
    IN  IF ~message.ok
        THEN [ ok |-> FALSE, err |-> message.err, params |-> stamped ]
        ELSE [ ok |-> TRUE,
               params |-> [ stamped EXCEPT
                              !["signature"] = Some(HmacSha256Hex(secret, message.val)) ] ]

(***************************************************************************)
(* Capability Model (src/types.rs): request-kind |-> the marker traits it  *)
(* implements.  A setter of impl<T: Cap> ParamBuilder<T> exists for a kind *)
(* exactly when Cap is in the kind's set.                                  *)
(***************************************************************************)
Capabilities ==
    [ PingParams |-> {},
      TimeParams |-> {},
      ExchangeInfoParams |-> {},
      AveragePriceParams |-> {},
      OrderBookParams |-> { "Limit" },
      TradesParams |-> { "Limit" },
      HistoricalTradesParams |-> { "Limit", "FromId" },
      AggTradesParams |-> { "Limit", "FromId", "StartTime", "EndTime" },
      KlinesParams |-> { "Limit", "StartTime", "EndTime" },
      TwentyfourHourTickerPriceParams |-> { "Symbol" },
      TickerPriceParams |-> { "Symbol" },
      OrderBookTickerParams |-> { "Symbol" },
      LimitOrderParams |-> { "TimeInForce", "LimitMaker", "LimitOrderStopPrice",
                             "NewClientOrderId", "IcebergQty", "NewOrderRespType",
                             "RecvWindow" },
      LimitMakerOrderParams |-> { "NewClientOrderId", "NewOrderRespType", "RecvWindow" },
      MarketOrderParams |-> { "MarketOrderStopPrice", "NewClientOrderId",
                              "NewOrderRespType", "RecvWindow" },
      OrderStatusParams |-> { "RecvWindow" },
      CancelOrderParams |-> { "NewClientOrderId", "RecvWindow" },
      OpenOrderParams |-> { "Symbol", "RecvWindow" },
      AllOrdersParams |-> { "OrderId", "StartTime", "EndTime", "Limit", "RecvWindow" },
      OcoParams |-> { "ListClientOrderId", "LimitClientOrderId", "LimitIcebergQty",
                      "StopClientOrderId", "StopIcebergQty", "StopLimitPrice",
                      "NewOrderRespType", "RecvWindow" },
      CancelOcoParams |-> { "NewClientOrderId", "RecvWindow" },
      OcoStatusParams |-> { "RecvWindow" },
      AllOcoParams |-> { "Limit", "FromId", "StartTime", "EndTime", "RecvWindow" },
      OpenOcoParams |-> { "RecvWindow" },
      AccountParams |-> { "RecvWindow" },
      AccountTradesParams |-> { "Limit", "FromId", "StartTime", "EndTime", "RecvWindow" },
      StartStreamParams |-> {},
      KeepAliveStreamParams |-> {},
      CloseStreamParams |-> {},
      WithdrawParams |-> { "AddressTag", "Name", "RecvWindow" },
      DepositHistoryParams |-> { "Asset", "Status", "StartTime", "EndTime", "RecvWindow" },
      WithdrawHistoryParams |-> { "Asset", "Status", "StartTime", "EndTime", "RecvWindow" },
      DepositAddressParams |-> { "Status", "RecvWindow" },
      AccountStatusParams |-> { "RecvWindow" },
      SystemStatusParams |-> {},
      ApiStatusParams |-> { "RecvWindow" },
      DustlogParams |-> { "RecvWindow" },
      TradeFeeParams |-> { "Symbol", "RecvWindow" },
      AssetDetailParams |-> { "RecvWindow" },
      SubAccountParams |-> { "Email", "Status", "Page", "Limit", "RecvWindow" },
      SubAccountTranferParams |-> { "StartTime", "EndTime", "Page", "Limit", "RecvWindow" },
      TransferSubAccountParams |-> { "RecvWindow" },
      SubAccountAssetParams |-> { "Symbol", "RecvWindow" },
      DustTransferParams |-> { "RecvWindow" },
      AssetDividendParams |-> { "Asset", "StartTime", "EndTime", "RecvWindow" } ]

(***************************************************************************)
(* Caller-side inputs: the small sets the arguments are drawn from.        *)
(***************************************************************************)
Args ==
    [ symbol |-> "BNBUSDT", price |-> 305, quantity |-> 10, stop_price |-> 290,
      iceberg_qty |-> 5, amount |-> 25, limit |-> 500, from_id |-> 42,
      time |-> 1500000000, recv_window |-> 8000, page |-> 2, order_id |-> 7 ]
ApiKeys == { "api-key-1" }
SecretKeys == { "secret-key-1" }
Sides == { "Buy", "Sell" }
\* enum ID { OrderId(i64), ClientOId(&str) }
IDs == { [ variant |-> "OrderId", id |-> Args.order_id ], [ variant |-> "ClientOId", id |-> "my-order" ] }

\* `if let ID::OrderId(id) = id { Some(id) } else { None }` and its ClientOId twin
IdAsOrderId(id) == IF id.variant = "OrderId" THEN Some(id.id) ELSE None
IdAsClientOId(id) == IF id.variant = "ClientOId" THEN Some(id.id) ELSE None

\* One row per endpoint constructor: the request-kind of the builder it
\* returns, the verb of its request template, whether it passes Some(api_key)
\* and Some(secret_key) to ParamBuilder::new, and the records it can start from.
Endpoint(name, kind, method, api, secret, inits) ==
    [ name |-> name, kind |-> kind, method |-> method, api |-> api,
      secret |-> secret, inits |-> inits ]

\* src/client/general.rs
GeneralClient ==
    { Endpoint("ping", "PingParams", "GET", FALSE, FALSE, { DefaultParameters }),
      Endpoint("get_server_time", "TimeParams", "GET", FALSE, FALSE, { DefaultParameters }),
      Endpoint("get_exchange_info", "ExchangeInfoParams", "GET", FALSE, FALSE,
               { DefaultParameters }) }

SymbolOnly == { ParametersWith([ symbol |-> Some(Args.symbol) ]) }

\* src/client/market.rs
MarketDataClient ==
    { Endpoint("get_order_book", "OrderBookParams", "GET", TRUE, FALSE, SymbolOnly),
      Endpoint("get_trades", "TradesParams", "GET", TRUE, FALSE, SymbolOnly),
      Endpoint("get_historical_trades", "HistoricalTradesParams", "GET", TRUE, FALSE,
               SymbolOnly),
      Endpoint("get_aggregate_trades", "AggTradesParams", "GET", TRUE, FALSE, SymbolOnly),
      Endpoint("get_candlestick_bars", "KlinesParams", "GET", TRUE, FALSE,
               { ParametersWith([ symbol |-> Some(Args.symbol),
                                  interval |-> Some("OneMinute") ]) }),
      Endpoint("get_average_price", "AveragePriceParams", "GET", TRUE, FALSE, SymbolOnly),
      Endpoint("get_24hr_ticker_price", "TwentyfourHourTickerPriceParams", "GET", TRUE,
               FALSE, { DefaultParameters }),
      Endpoint("get_price_ticker", "TickerPriceParams", "GET", TRUE, FALSE,
               { DefaultParameters }),
      Endpoint("get_order_book_ticker", "OrderBookTickerParams", "GET", TRUE, FALSE,
               { DefaultParameters }) }

\* src/client/account.rs
AccountClient ==
    { Endpoint("place_limit_order", "LimitOrderParams", "POST", TRUE, TRUE,
               { ParametersWith([ symbol |-> Some(Args.symbol), side |-> Some(sd),
                                  order_type |-> Some("Limit"),
                                  price |-> Some(Args.price),
                                  quantity |-> Some(Args.quantity),
                                  time_in_force |-> Some("Gtc") ]) : sd \in Sides }),
      Endpoint("place_market_order", "MarketOrderParams", "POST", TRUE, TRUE,
               { ParametersWith([ symbol |-> Some(Args.symbol), side |-> Some(sd),
                                  order_type |-> Some("Market"),
                                  quantity |-> Some(Args.quantity) ]) : sd \in Sides }),
      Endpoint("get_order", "OrderStatusParams", "GET", TRUE, TRUE,
               { ParametersWith([ symbol |-> Some(Args.symbol),
                                  order_id |-> IdAsOrderId(id),
                                  orig_client_order_id |-> IdAsClientOId(id) ])
                 : id \in IDs }),
      Endpoint("cancel_order", "CancelOrderParams", "DELETE", TRUE, TRUE,
               { ParametersWith([ symbol |-> Some(Args.symbol),
                                  order_id |-> IdAsOrderId(id),
                                  orig_client_order_id |-> IdAsClientOId(id) ])
                 : id \in IDs }),
      Endpoint("get_open_orders", "OpenOrderParams", "GET", TRUE, TRUE,
               { DefaultParameters }),
      Endpoint("get_all_orders", "AllOrdersParams", "GET", TRUE, TRUE, SymbolOnly),
      Endpoint("place_oco_order", "OcoParams", "POST", TRUE, TRUE,
               { ParametersWith([ symbol |-> Some(Args.symbol), side |-> Some(sd),
                                  price |-> Some(Args.price),
                                  stop_price |-> Some(Args.stop_price),
                                  quantity |-> Some(Args.quantity) ]) : sd \in Sides }),
      Endpoint("cancel_oco", "CancelOcoParams", "DELETE", TRUE, TRUE,
               { ParametersWith([ symbol |-> Some(Args.symbol),
                                  order_list_id |-> IdAsOrderId(id),
                                  list_client_order_id |-> IdAsClientOId(id) ])
                 : id \in IDs }),
      Endpoint("get_oco", "OcoStatusParams", "GET", TRUE, TRUE,
               { ParametersWith([ order_list_id |-> IdAsOrderId(id),
                                  orig_client_order_id |-> IdAsClientOId(id) ])
                 : id \in IDs }),
      Endpoint("get_all_oco_orders", "AllOcoParams", "GET", TRUE, TRUE,
               { DefaultParameters }),
      Endpoint("get_open_oco_orders", "OpenOcoParams", "GET", TRUE, TRUE,
               { DefaultParameters }),
      Endpoint("get_account", "AccountParams", "GET", TRUE, TRUE, { DefaultParameters }),
      Endpoint("get_account_trades", "AccountTradesParams", "GET", TRUE, TRUE,
               SymbolOnly) }

\* src/client/user_data.rs
UserDataClient ==
    { Endpoint("start_stream", "StartStreamParams", "POST", TRUE, FALSE,
               { DefaultParameters }),
      Endpoint("keep_alive", "KeepAliveStreamParams", "PUT", TRUE, FALSE,
               { ParametersWith([ listen_key |-> Some("listen-key-1") ]) }),
      Endpoint("close_stream", "CloseStreamParams", "DELETE", TRUE, FALSE,
               { ParametersWith([ listen_key |-> Some("listen-key-1") ]) }) }

AssetOnly == { ParametersWith([ asset |-> Some("BNB") ]) }
EmailOnly == { ParametersWith([ email |-> Some("sub@example.com") ]) }

\* src/client/withdraw.rs
WithdrawalClient ==
    { Endpoint("withdraw", "WithdrawParams", "POST", TRUE, TRUE,
               { ParametersWith([ asset |-> Some("BNB"), address |-> Some("addr-1"),
                                  amount |-> Some(Args.amount) ]) }),
      Endpoint("get_deposit_history", "DepositHistoryParams", "GET", TRUE, TRUE,
               { DefaultParameters }),
      Endpoint("get_withdraw_history", "WithdrawHistoryParams", "GET", TRUE, TRUE,
               { DefaultParameters }),
      Endpoint("get_deposit_address", "DepositAddressParams", "GET", TRUE, TRUE,
               AssetOnly),
      Endpoint("get_account_status", "AccountStatusParams", "GET", TRUE, TRUE,
               { DefaultParameters }),
      Endpoint("get_system_status", "SystemStatusParams", "GET", TRUE, TRUE,
               { DefaultParameters }),
      Endpoint("get_api_status", "ApiStatusParams", "GET", TRUE, TRUE,
               { DefaultParameters }),
      Endpoint("get_dustlog", "DustlogParams", "GET", TRUE, TRUE, { DefaultParameters }),
      Endpoint("get_trade_fee", "TradeFeeParams", "GET", TRUE, TRUE,
               { DefaultParameters }),
      Endpoint("get_asset_detail", "AssetDetailParams", "GET", TRUE, TRUE,
               { DefaultParameters }),
      Endpoint("get_sub_accounts", "SubAccountParams", "GET", TRUE, TRUE,
               { DefaultParameters }),
      Endpoint("get_transfer_history", "SubAccountTranferParams", "GET", TRUE, TRUE,
               EmailOnly),
      Endpoint("tranfer_sub_account", "TransferSubAccountParams", "POST", TRUE, TRUE,
               { ParametersWith([ from_email |-> Some("from@example.com"),
                                  to_email |-> Some("to@example.com"),
                                  asset |-> Some("BNB"),
                                  amount |-> Some(Args.amount) ]) }),
      Endpoint("get_sub_account_assets", "SubAccountAssetParams", "GET", TRUE, TRUE,
               EmailOnly),
      Endpoint("dust_transfer", "DustTransferParams", "POST", TRUE, TRUE, AssetOnly),
      Endpoint("get_asset_dividends", "AssetDividendParams", "GET", TRUE, TRUE,
               { DefaultParameters }) }

Endpoints ==
    GeneralClient \cup MarketDataClient \cup AccountClient \cup UserDataClient
        \cup WithdrawalClient

(***************************************************************************)
(* Request Builder (src/builder.rs)                                        *)
(***************************************************************************)
\* ParamBuilder::new(params, builder, api_key, secret_key); kind is the type
\* parameter T, method the verb of the reqwest::RequestBuilder template.
ParamBuilder(kind, params, method, api_key, secret_key) ==
    [ kind |-> kind, params |-> params, method |-> method, api_key |-> api_key,
      secret_key |-> secret_key ]

Header(name, value) == [ name |-> name, value |-> value ]
Err(kind) == [ ok |-> FALSE, err |-> [ kind |-> kind ] ]

\* ParamBuilder::builder(self).  rb is the reqwest::RequestBuilder it returns: a
\* request, or the error RequestBuilder::query stored when the record did not
\* serialize (send() returns that error without sending).  params is the
\* record as the call leaves it and signed tells whether sign was called.
\* Variant of api_key_header: the header is attached to signed requests only.
api_key_header_if_signed(b) ==
    IF b.api_key # None /\ b.secret_key # None
    THEN << Header("X-MBX-APIKEY", b.api_key[1]) >>
    ELSE <<>>

\* builder(), lines 58-62: the API key header, when a key was given
api_key_header(b) ==
    IF b.api_key # None THEN << Header("X-MBX-APIKEY", b.api_key[1]) >> ELSE <<>>

\* Variants of uses_body: DELETE also takes a body; only POST takes a body.
uses_body_with_delete(method) == method = "POST" \/ method = "PUT" \/ method = "DELETE"
uses_body_post_only(method) == method = "POST"

\* builder(), line 75: the verbs whose parameters go into the body
uses_body(method) == method = "POST" \/ method = "PUT"

builder(b) ==
    LET keyed == api_key_header(b)
        signing == b.secret_key # None
        signed == IF signing THEN sign(b.params, b.secret_key[1])
                  ELSE [ ok |-> TRUE, params |-> b.params ]
        headers == keyed \o << Header("User-Agent", "tokio-binance") >>
        encoded == to_string(signed.params)
    IN  IF ~signed.ok
        THEN Err(signed.err) @@ [ params |-> signed.params, signed |-> signing ]
        ELSE IF uses_body(b.method)
        THEN IF ~encoded.ok
             THEN Err(encoded.err) @@ [ params |-> signed.params, signed |-> signing ]
             ELSE [ ok |-> TRUE, params |-> signed.params, signed |-> signing,
                    rb |-> [ error |-> None,
                             request |->
                               [ method |-> b.method,
                                 headers |-> headers \o
                                   << Header("Content-Type",
                                             "application/x-www-form-urlencoded") >>,
                                 query |-> <<>>,
                                 body |-> Some(encoded.val) ] ] ]
        ELSE [ ok |-> TRUE, params |-> signed.params, signed |-> signing,
               rb |-> IF ~encoded.ok
                      THEN [ error |-> Some("Reqwest") ]
                      ELSE [ error |-> None,
                             request |-> [ method |-> b.method, headers |-> headers,
                                           query |-> encoded.val, body |-> None ] ] ]

\* Variant of is_client_error: every status from 400 up is a client error.
is_client_error_and_above(status) == 400 <= status

\* StatusCode::is_success / is_client_error
is_success(status) == 200 <= status /\ status <= 299
is_client_error(status) == 400 <= status /\ status <= 499

\* StatusCode::canonical_reason for the statuses the model draws; None for a
\* code without a registered reason phrase.
canonical_reason(status) ==
    CASE status = 400 -> Some("Bad Request")
      [] status = 404 -> Some("Not Found")
      [] status = 429 -> Some("Too Many Requests")
      [] OTHER -> None

unwrap_or(opt, default) == IF opt = None THEN default ELSE opt[1]

\* The classification in ParamBuilder::response, lines 42-54: the reply's status
\* and the result of reading its body (None when the read fails).
classify(status, bodyText) ==
    IF is_success(status)
    THEN [ ok |-> TRUE, status |-> status, warned |-> <<>> ]
    ELSE IF is_client_error(status)
    THEN [ ok |-> FALSE, warned |-> <<>>,
           err |-> [ kind |-> "Binance", code |-> status,
                     reason |-> unwrap_or(canonical_reason(status), "UNKNOWN"),
                     message |-> unwrap_or(bodyText, "") ] ]
    ELSE [ ok |-> TRUE, status |-> status, warned |-> << status >> ]

\* What the network does to one request: the send fails, or a reply arrives
\* with a status and a body that can be read (and is or is not the JSON the
\* caller expects) or cannot.
BodyReads ==
    { [ text |-> Some("{\"ok\":true}"), json |-> TRUE ],
      [ text |-> Some("<html>"), json |-> FALSE ],
      [ text |-> None, json |-> FALSE ] }

Replies(statuses, bodies) ==
    { [ sent |-> FALSE ] } \cup
    { [ sent |-> TRUE, status |-> st, body |-> bd ] : st \in statuses, bd \in bodies }

\* ParamBuilder::response(self): builder()?.send().await? and the classification.
\* request is what was handed to the HTTP client, if anything.
respond(b, answer) ==
    LET built == builder(b)
    IN  IF ~built.ok
        THEN [ result |-> [ ok |-> FALSE, err |-> built.err, warned |-> <<>> ],
               request |-> None, params |-> built.params, signed |-> built.signed ]
        ELSE IF built.rb.error # None
        THEN [ result |-> Err(built.rb.error[1]) @@ [ warned |-> <<>> ],
               request |-> None, params |-> built.params, signed |-> built.signed ]
        ELSE IF ~answer.sent
        THEN [ result |-> Err("Reqwest") @@ [ warned |-> <<>> ],
               request |-> Some(built.rb.request), params |-> built.params,
               signed |-> built.signed ]
        ELSE [ result |-> classify(answer.status, answer.body.text),
               request |-> Some(built.rb.request), params |-> built.params,
               signed |-> built.signed ]

\* self.response().await?.text().await?
text_of(res, answer) ==
    IF ~res.ok THEN [ ok |-> FALSE, err |-> res.err ]
    ELSE IF answer.body.text = None THEN Err("Reqwest")
    ELSE [ ok |-> TRUE, val |-> answer.body.text[1] ]

\* self.response().await?.json::<J>().await?
json_of(res, answer) ==
    IF ~res.ok THEN [ ok |-> FALSE, err |-> res.err ]
    ELSE IF answer.body.text = None \/ ~answer.body.json THEN Err("Reqwest")
    ELSE [ ok |-> TRUE, val |-> [ json |-> answer.body.text[1] ] ]

(***************************************************************************)
(* Fluent setters (src/builder.rs, lines 86-300), as functions of the      *)
(* record.  Each is defined in an impl block bounded by one capability.    *)
(***************************************************************************)
with_symbol(p, symbol) ==
    [ p EXCEPT !["symbol"] = Some(symbol) ]

with_limit(p, limit) ==
    [ p EXCEPT !["limit"] = Some(limit) ]

with_from_id(p, from_id) ==
    [ p EXCEPT !["from_id"] = Some(from_id) ]

with_start_time(p, start_time) ==
    [ p EXCEPT !["start_time"] = Some(start_time) ]

with_end_time(p, end_time) ==
    [ p EXCEPT !["end_time"] = Some(end_time) ]

with_time_in_force(p, time_in_force) ==
    [ p EXCEPT !["time_in_force"] = Some(time_in_force) ]

\* impl<T: Price>: no request-kind implements Price, so no builder has it.
with_price(p, price) ==
    [ p EXCEPT !["price"] = Some(price) ]

with_new_client_order_id(p, new_client_order_id) ==
    [ p EXCEPT !["new_client_order_id"] = Some(new_client_order_id) ]

with_stop_loss(p, stop_price) ==
    [ p EXCEPT !["order_type"] = Some("StopLoss"), !["stop_price"] = Some(stop_price) ]

with_take_profit(p, stop_price) ==
    [ p EXCEPT !["order_type"] = Some("TakeProfit"), !["stop_price"] = Some(stop_price) ]

\* Variant of with_stop_loss_limit: the order type is set without the stop price.
with_stop_loss_limit_type_only(p, stop_price) ==
    [ p EXCEPT !["order_type"] = Some("StopLossLimit") ]

with_stop_loss_limit(p, stop_price) ==
    [ p EXCEPT !["order_type"] = Some("StopLossLimit"), !["stop_price"] = Some(stop_price) ]

with_take_profit_limit(p, stop_price) ==
    [ p EXCEPT !["order_type"] = Some("TakeProfitLimit"), !["stop_price"] = Some(stop_price) ]

with_iceberg_qty(p, iceberg_qty) ==
    [ p EXCEPT !["time_in_force"] = Some("Gtc"), !["iceberg_qty"] = Some(iceberg_qty) ]

with_new_order_resp_type(p, new_order_resp_type) ==
    [ p EXCEPT !["new_order_resp_type"] = Some(new_order_resp_type) ]

with_order_id(p, order_id) ==
    [ p EXCEPT !["order_id"] = Some(order_id) ]

with_list_client_order_id(p, list_client_order_id) ==
    [ p EXCEPT !["list_client_order_id"] = Some(list_client_order_id) ]

with_limit_client_order_id(p, limit_client_order_id) ==
    [ p EXCEPT !["limit_client_order_id"] = Some(limit_client_order_id) ]

with_stop_client_order_id(p, stop_client_order_id) ==
    [ p EXCEPT !["stop_client_order_id"] = Some(stop_client_order_id) ]

with_limit_iceberg_qty(p, limit_iceberg_qty) ==
    [ p EXCEPT !["limit_iceberg_qty"] = Some(limit_iceberg_qty) ]

with_stop_iceberg_qty(p, stop_iceberg_qty) ==
    [ p EXCEPT !["stop_iceberg_qty"] = Some(stop_iceberg_qty) ]

with_stop_limit_price(p, stop_limit_price, time_in_force) ==
    [ p EXCEPT !["stop_limit_time_in_force"] = Some(time_in_force), !["stop_limit_price"] = Some(stop_limit_price) ]

with_address_tag(p, address_tag) ==
    [ p EXCEPT !["address_tag"] = Some(address_tag) ]

with_name(p, name) ==
    [ p EXCEPT !["name"] = Some(name) ]

with_asset(p, asset) ==
    [ p EXCEPT !["asset"] = Some(asset) ]

with_status(p, status) ==
    [ p EXCEPT !["status"] = Some(status) ]

with_email(p, email) ==
    [ p EXCEPT !["email"] = Some(email) ]

with_page(p, page) ==
    [ p EXCEPT !["page"] = Some(page) ]

\* Variant of with_recv_window: the setter also stamps the record.
with_recv_window_stamping(p, recv_window) ==
    [ p EXCEPT !["recv_window"] = Some(recv_window), !["timestamp"] = Some(now) ]

with_recv_window(p, recv_window) ==
    [ p EXCEPT !["recv_window"] = Some(recv_window) ]

\* Variant of into_limit_maker_order: the old record is kept and only the
\* order type is replaced.
into_limit_maker_order_keeping(b) ==
    ParamBuilder("LimitMakerOrderParams",
                 [ b.params EXCEPT !["order_type"] = Some("LimitMaker") ],
                 b.method, b.api_key, b.secret_key)

\* into_limit_maker_order(self): a new record that keeps five fields of the
\* old one; the request template and the credentials are carried over.
into_limit_maker_order(b) ==
    ParamBuilder("LimitMakerOrderParams",
                 ParametersWith([ symbol |-> b.params["symbol"],
                                  side |-> b.params["side"],
                                  order_type |-> Some("LimitMaker"),
                                  price |-> b.params["price"],
                                  quantity |-> b.params["quantity"] ]),
                 b.method, b.api_key, b.secret_key)

(***************************************************************************)
(* Actions of the request pipeline, for one ParamBuilder: an endpoint      *)
(* constructor creates it, setters consume and return it, and text() or    *)
(* json() consume it for good.  Builders share no state, so a behaviour    *)
(* follows one of them.                                                    *)
(***************************************************************************)
\* Variant of Building: a setter is callable whatever the request-kind.
Building_unbounded(cap) == phase = "building"

\* The trait bound of a setter: `impl<T: Cap> ParamBuilder<T>`.
Building(cap) == phase = "building" /\ cap \in Capabilities[pb[1].kind]

Returns(b) ==
    /\ pb' = Some(b)
    /\ UNCHANGED <<now, phase, builtAt, signs, request, sentAt, response, outcome,
                   reply, warnings, ws, wsPhase, wire, lastSend, lastRead, lastCall, inbox, lastIn>>

Sets(p) == Returns([ pb[1] EXCEPT !.params = p ])

\* The wall clock advances.
Tick ==
    /\ now < MaxClock
    /\ now' = now + 1
    /\ UNCHANGED <<phase, pb, builtAt, signs, request, sentAt, response, outcome,
                   reply, warnings, ws, wsPhase, wire, lastSend, lastRead, lastCall, inbox, lastIn>>

\* An endpoint constructor of one of the clients calls ParamBuilder::new.
Construct(endpoints) ==
    /\ phase = "idle"
    /\ \E e \in endpoints, ak \in ApiKeys, sk \in SecretKeys :
          \E p \in e.inits :
             pb' = Some(ParamBuilder(e.kind, p, e.method,
                                     IF e.api THEN Some(ak) ELSE None,
                                     IF e.secret THEN Some(sk) ELSE None))
    /\ phase' = "building"
    /\ builtAt' = now
    /\ signs' = 0
    /\ request' = None
    /\ sentAt' = None
    /\ response' = None
    /\ outcome' = None
    /\ reply' = None
    /\ warnings' = <<>>
    /\ UNCHANGED <<now, ws, wsPhase, wire, lastSend, lastRead, lastCall, inbox, lastIn>>

WithSymbol ==
    /\ Building("Symbol")
    /\ \E symbol \in { Args.symbol } :
          Sets(with_symbol(pb[1].params, symbol))

WithLimit ==
    /\ Building("Limit")
    /\ \E limit \in { Args.limit } :
          Sets(with_limit(pb[1].params, limit))

WithFromId ==
    /\ Building("FromId")
    /\ \E from_id \in { Args.from_id } :
          Sets(with_from_id(pb[1].params, from_id))

WithStartTime ==
    /\ Building("StartTime")
    /\ \E start_time \in { Args.time } :
          Sets(with_start_time(pb[1].params, start_time))

WithEndTime ==
    /\ Building("EndTime")
    /\ \E end_time \in { Args.time } :
          Sets(with_end_time(pb[1].params, end_time))

WithTimeInForce ==
    /\ Building("TimeInForce")
    /\ \E time_in_force \in DOMAIN TimeInForce :
          Sets(with_time_in_force(pb[1].params, time_in_force))

WithNewClientOrderId ==
    /\ Building("NewClientOrderId")
    /\ \E new_client_order_id \in { "my-order-2" } :
          Sets(with_new_client_order_id(pb[1].params, new_client_order_id))

WithStopLoss ==
    /\ Building("MarketOrderStopPrice")
    /\ \E stop_price \in { Args.stop_price } :
          Sets(with_stop_loss(pb[1].params, stop_price))

WithTakeProfit ==
    /\ Building("MarketOrderStopPrice")
    /\ \E stop_price \in { Args.stop_price } :
          Sets(with_take_profit(pb[1].params, stop_price))

WithStopLossLimit ==
    /\ Building("LimitOrderStopPrice")
    /\ \E stop_price \in { Args.stop_price } :
          Sets(with_stop_loss_limit(pb[1].params, stop_price))

WithTakeProfitLimit ==
    /\ Building("LimitOrderStopPrice")
    /\ \E stop_price \in { Args.stop_price } :
          Sets(with_take_profit_limit(pb[1].params, stop_price))

WithIcebergQty ==
    /\ Building("IcebergQty")
    /\ \E iceberg_qty \in { Args.iceberg_qty } :
          Sets(with_iceberg_qty(pb[1].params, iceberg_qty))

WithNewOrderRespType ==
    /\ Building("NewOrderRespType")
    /\ \E new_order_resp_type \in DOMAIN OrderRespType :
          Sets(with_new_order_resp_type(pb[1].params, new_order_resp_type))

WithOrderId ==
    /\ Building("OrderId")
    /\ \E order_id \in { Args.order_id } :
          Sets(with_order_id(pb[1].params, order_id))

WithListClientOrderId ==
    /\ Building("ListClientOrderId")
    /\ \E list_client_order_id \in { "list-1" } :
          Sets(with_list_client_order_id(pb[1].params, list_client_order_id))

WithLimitClientOrderId ==
    /\ Building("LimitClientOrderId")
    /\ \E limit_client_order_id \in { "limit-1" } :
          Sets(with_limit_client_order_id(pb[1].params, limit_client_order_id))

WithStopClientOrderId ==
    /\ Building("StopClientOrderId")
    /\ \E stop_client_order_id \in { "stop-1" } :
          Sets(with_stop_client_order_id(pb[1].params, stop_client_order_id))

WithLimitIcebergQty ==
    /\ Building("LimitIcebergQty")
    /\ \E limit_iceberg_qty \in { Args.iceberg_qty } :
          Sets(with_limit_iceberg_qty(pb[1].params, limit_iceberg_qty))

WithStopIcebergQty ==
    /\ Building("StopIcebergQty")
    /\ \E stop_iceberg_qty \in { Args.iceberg_qty } :
          Sets(with_stop_iceberg_qty(pb[1].params, stop_iceberg_qty))

WithStopLimitPrice ==
    /\ Building("StopLimitPrice")
    /\ \E stop_limit_price \in { Args.stop_price }, time_in_force \in DOMAIN TimeInForce :
          Sets(with_stop_limit_price(pb[1].params, stop_limit_price, time_in_force))

WithAddressTag ==
    /\ Building("AddressTag")
    /\ \E address_tag \in { "tag-1" } :
          Sets(with_address_tag(pb[1].params, address_tag))

WithName ==
    /\ Building("Name")
    /\ \E name \in { "wallet" } :
          Sets(with_name(pb[1].params, name))

WithAsset ==
    /\ Building("Asset")
    /\ \E asset \in { "BNB" } :
          Sets(with_asset(pb[1].params, asset))

WithStatus ==
    /\ Building("Status")
    /\ \E status \in JsonValues :
          Sets(with_status(pb[1].params, status))

WithEmail ==
    /\ Building("Email")
    /\ \E email \in { "sub@example.com" } :
          Sets(with_email(pb[1].params, email))

WithPage ==
    /\ Building("Page")
    /\ \E page \in { Args.page } :
          Sets(with_page(pb[1].params, page))

WithRecvWindow ==
    /\ Building("RecvWindow")
    /\ \E recv_window \in { Args.recv_window } :
          Sets(with_recv_window(pb[1].params, recv_window))

IntoLimitMakerOrder ==
    /\ Building("LimitMaker")
    /\ Returns(into_limit_maker_order(pb[1]))

\* The state a consumed builder leaves behind, for ParamBuilder::text and json.
Consume(r, final, answer) ==
    /\ phase = "building"
    /\ phase' = "consumed"
    /\ pb' = Some([ pb[1] EXCEPT !.params = r.params ])
    /\ signs' = signs + (IF r.signed THEN 1 ELSE 0)
    /\ request' = r.request
    /\ sentAt' = IF r.request = None THEN None ELSE Some(now)
    /\ response' = Some(r.result)
    /\ outcome' = Some(final)
    /\ reply' = IF r.request = None THEN None ELSE Some(answer)
    /\ warnings' = r.result.warned
    /\ UNCHANGED <<now, builtAt, ws, wsPhase, wire, lastSend, lastRead, lastCall, inbox, lastIn>>

\* ParamBuilder::text(self)
text(replies) ==
    /\ phase = "building"
    /\ \E answer \in replies :
          LET r == respond(pb[1], answer)
          IN  Consume(r, text_of(r.result, answer), answer)

\* ParamBuilder::json(self)
json(replies) ==
    /\ phase = "building"
    /\ \E answer \in replies :
          LET r == respond(pb[1], answer)
          IN  Consume(r, json_of(r.result, answer), answer)

(***************************************************************************)
(* Channel Protocol Layer (src/ws_stream.rs)                               *)
(***************************************************************************)
BINANCE_US_WSS_URL == "wss://stream.binance.us:9443"

\* enum Level / enum Speed, one #[serde(rename = ...)] per variant
Level == [ Five |-> "5", Ten |-> "10", Twenty |-> "20" ]
Speed == [ HundredMillis |-> "100ms", ThousandMillis |-> "1000ms" ]

\* Variant of to_lowercase: the symbol is used as the caller wrote it.
to_lowercase_unchanged == [ BNBUSDT |-> "BNBUSDT", ETHUSDT |-> "ETHUSDT", bnbusdt |-> "bnbusdt" ]

\* str::to_lowercase on the symbols the model draws
to_lowercase == [ BNBUSDT |-> "bnbusdt", ETHUSDT |-> "ethusdt", bnbusdt |-> "bnbusdt" ]

\* enum Channel: a variant and the arguments it carries
Channel(variant, args) == [ variant |-> variant ] @@ args

\* impl fmt::Display for Channel
to_string_channel(c) ==
    CASE c.variant = "AggTrade" -> to_lowercase[c.symbol] \o "@aggTrade"
      [] c.variant = "Trade" -> to_lowercase[c.symbol] \o "@trade"
      [] c.variant = "Kline" ->
            to_lowercase[c.symbol] \o "@kline_" \o Interval[c.interval]
      [] c.variant = "MiniTicker" -> to_lowercase[c.symbol] \o "@miniTicker"
      [] c.variant = "AllMiniTickers" -> "!miniTicker@arr"
      [] c.variant = "Ticker" -> to_lowercase[c.symbol] \o "@ticker"
      [] c.variant = "AllTickers" -> "!ticker@arr"
      [] c.variant = "BookTicker" -> to_lowercase[c.symbol] \o "@bookTicker"
      [] c.variant = "AllBookTickers" -> "!bookTicker"
      [] c.variant = "PartialDepth" ->
            to_lowercase[c.symbol] \o "@depth" \o Level[c.level] \o "@" \o Speed[c.speed]
      [] c.variant = "Depth" -> to_lowercase[c.symbol] \o "@depth@" \o Speed[c.speed]
      [] c.variant = "UserData" -> c.listen_key

\* serde_json::Value leaves used in control messages
JsonString(str) == [ str |-> str ]
JsonBool(b) == [ bool |-> b ]

\* struct SubscribeMessage { method, params, id } after serde_json::to_string,
\* wrapped in Message::Text: the JSON object with its three members.
SubscribeMessage(method, params, id) ==
    [ type |-> "Text", json |-> [ method |-> method, params |-> params, id |-> id ] ]

Ping(payload) == [ type |-> "Ping", payload |-> payload ]
Pong(payload) == [ type |-> "Pong", payload |-> payload ]

\* Channels and channel lists the caller passes
ConnectChannels == { Channel("Ticker", [ symbol |-> "BNBUSDT" ]) }
\* Every variant of Channel, over the symbols, intervals, levels and speeds
AllChannels ==
    { Channel(v, [ symbol |-> sy ]) :
        v \in { "AggTrade", "Trade", "MiniTicker", "Ticker", "BookTicker" },
        sy \in DOMAIN to_lowercase } \cup
    { Channel("Kline", [ symbol |-> sy, interval |-> iv ]) :
        sy \in DOMAIN to_lowercase, iv \in DOMAIN Interval } \cup
    { Channel("PartialDepth", [ symbol |-> sy, level |-> lv, speed |-> sp ]) :
        sy \in DOMAIN to_lowercase, lv \in DOMAIN Level, sp \in DOMAIN Speed } \cup
    { Channel("Depth", [ symbol |-> sy, speed |-> sp ]) :
        sy \in DOMAIN to_lowercase, sp \in DOMAIN Speed } \cup
    { Channel(v, << >>) : v \in { "AllMiniTickers", "AllTickers", "AllBookTickers" } } \cup
    { Channel("UserData", [ listen_key |-> k ]) : k \in { "listen-key-1", "LISTEN@Key" } }
ChannelLists ==
    { <<>>,
      << Channel("AggTrade", [ symbol |-> "BNBUSDT" ]),
         Channel("Kline", [ symbol |-> "BNBUSDT", interval |-> "OneMinute" ]) >> }

\* What SinkExt::send (poll_ready, start_send, poll_flush) can do with a frame:
\*   "ok"       the frame was queued and flushed, send returns Ok
\*   "rejected" poll_ready or start_send failed, nothing was queued
\*   "queued"   start_send queued the frame and the flush failed
\* A session that is no longer open rejects every frame.
SendOutcomes == { "ok", "rejected", "queued" }

\* The frames the transport holds after a send with the given outcome.
Handed(frame, how) ==
    IF how = "rejected" THEN wire ELSE Append(wire, [ frame |-> frame, ok |-> how = "ok" ])

Room == Len(wire) < MaxWire

\* Variant of next_id: the id is incremented whether or not the send succeeded.
next_id_always(id, how) == id + 1

\* `self.send(Message::Text(message)).await?; self.id += 1;`: the id after a send
next_id(id, how) == IF how = "ok" THEN id + 1 ELSE id

\* Variant of connected: a failed send of SET_PROPERTY is ignored.
connected_ignoring_send(handshake, how) == handshake

\* connect(), lines 167 and 176: both `?` passed, the handle is returned
connected(handshake, how) == handshake /\ how = "ok"

\* WebSocketStream::connect(channel, url)
connect ==
    /\ wsPhase = "init"
    /\ \E channel \in ConnectChannels, handshake \in BOOLEAN, how \in SendOutcomes :
          LET url == BINANCE_US_WSS_URL \o "/ws/" \o to_string_channel(channel)
              stream == [ inner |-> url, id |-> 0 ]
              message == SubscribeMessage("SET_PROPERTY",
                                          << JsonString("combined"), JsonBool(TRUE) >>,
                                          stream.id)
          IN  IF ~handshake
              THEN /\ ws' = None
                   /\ wsPhase' = "connect_failed"
                   /\ lastSend' = Some(Err("Tungstenite"))
                   /\ wire' = wire
              ELSE /\ wire' = Handed(message, how)
                   /\ IF connected(handshake, how)
                      THEN /\ ws' = Some([ stream EXCEPT !.id = next_id(stream.id, how) ])
                           /\ wsPhase' = "open"
                           /\ lastSend' = Some([ ok |-> TRUE ])
                      ELSE /\ ws' = None
                           /\ wsPhase' = "connect_failed"
                           /\ lastSend' = Some(Err("Tungstenite"))
    /\ UNCHANGED <<lastRead, lastCall, inbox, lastIn, now, phase, pb, builtAt, signs,
                   request, sentAt, response, outcome, reply, warnings>>

\* Variant of collect_params: the topics are collected in reverse order.
collect_params_reversed(channels) ==
    [ i \in 1..Len(channels) |->
        JsonString(to_string_channel(channels[Len(channels) + 1 - i])) ]

\* send_msg(), lines 317-320: channels.iter().map(..to_string()).collect()
collect_params(channels) ==
    [ i \in 1..Len(channels) |-> JsonString(to_string_channel(channels[i])) ]

\* WebSocketStream::send_msg(method, channels)
send_msg(method, channels) ==
    /\ ws # None
    /\ Room
    /\ \E how \in IF wsPhase = "open" THEN SendOutcomes ELSE { "rejected" } :
          LET params == collect_params(channels)
              message == SubscribeMessage(method, params, ws[1].id)
          IN  /\ wire' = Handed(message, how)
              /\ ws' = Some([ ws[1] EXCEPT !.id = next_id(ws[1].id, how) ])
              /\ lastSend' = Some(IF how = "ok" THEN [ ok |-> TRUE ] ELSE Err("Tungstenite"))
    /\ UNCHANGED <<wsPhase, lastRead, inbox, lastIn, now, phase, pb, builtAt, signs,
                   request, sentAt, response, outcome, reply, warnings>>

\* WebSocketStream::subscribe(channels)
subscribe_to(lists) ==
    \E channels \in lists :
        /\ send_msg("SUBSCRIBE", channels)
        /\ lastCall' = Some([ op |-> "subscribe", channels |-> channels ])

subscribe == subscribe_to(ChannelLists)

\* The first subscription of a session, to any one channel
subscribe_first == lastCall = None /\ subscribe_to({ << c >> : c \in AllChannels })

\* WebSocketStream::unsubscribe(channels)
unsubscribe ==
    \E channels \in ChannelLists :
        /\ send_msg("UNSUBSCRIBE", channels)
        /\ lastCall' = Some([ op |-> "unsubscribe", channels |-> channels ])

\* Payloads of inbound frames: bytes that are, or are not, valid UTF-8; a text
\* that is, or is not, JSON of the type the caller asks for.
Payloads == { [ bytes |-> "p1", utf8 |-> TRUE ], [ bytes |-> "\\xff", utf8 |-> FALSE ] }
Texts == { [ text |-> "{\"stream\":\"bnbusdt@ticker\"}", json |-> TRUE ],
           [ text |-> "oops", json |-> FALSE ] }
CloseFrames == { [ code |-> 1006, reason |-> "abnormal" ],
                 [ code |-> 1000, reason |-> "bye" ] }

\* enum Message of tungstenite, as received
InFrames ==
    { [ type |-> "Text", data |-> t ] : t \in Texts } \cup
    { [ type |-> "Binary", payload |-> p ] : p \in Payloads } \cup
    { Ping(p) : p \in Payloads } \cup
    { Pong(p) : p \in Payloads } \cup
    { [ type |-> "Close", frame |-> Some(f) ] : f \in CloseFrames } \cup
    { [ type |-> "Close", frame |-> None ] }

\* Variant of Yielding: frames are yielded after the peer's close frame too.
Yielding_after_close == wsPhase \in { "open", "closing", "closed" }

\* What try_next() can yield: a frame, the end of the stream, a transport error.
\* The transport yields frames while the session is open and, after the
\* caller's close(), until the peer's close frame or the end of the stream has
\* been read; after that it yields no further frame.
Yielding == wsPhase \in { "open", "closing" }
Incoming ==
    { [ poll |-> "end" ], [ poll |-> "error" ] } \cup
    IF Yielding THEN { [ poll |-> "frame", msg |-> m ] : m \in InFrames } ELSE {}

\* CloseCode::Abnormal
Abnormal == 1006

\* Message::into_text: the payload as a String, or a UTF-8 error
into_text(payload) ==
    IF payload.utf8 THEN [ ok |-> TRUE, val |-> payload.bytes ] ELSE Err("Tungstenite")

\* serde_json::to_string(&json!({ key: text }))
synthetic(key, str) ==
    [ text |-> "{\"" \o key \o "\":\"" \o str \o "\"}", json |-> TRUE ]

\* Variant of WsCloseError: the code and reason of the frame are dropped.
WsCloseError_default(code, reason) ==
    [ ok |-> FALSE,
      err |-> [ kind |-> "Binance", code |-> Abnormal,
                reason |-> "Close message with no frame received" ] ]

\* WsCloseError::new(code, reason).into()
WsCloseError(code, reason) ==
    [ ok |-> FALSE, err |-> [ kind |-> "Binance", code |-> code, reason |-> reason ] ]

\* text(), line 224: `None => Ok(None)`
end_of_stream == [ ok |-> TRUE, val |-> None ]

\* Variant of on_close: a close frame is reported as the end of the stream.
on_close_as_end(frame) == [ ok |-> TRUE, val |-> None ]

\* text(), lines 214-222: Message::Close(Some(frame)) and Message::Close(None)
on_close(frame) ==
    IF frame # None
    THEN WsCloseError(frame[1].code, frame[1].reason)
    ELSE WsCloseError(Abnormal, "Close message with no frame received")

\* WebSocketStream::text(&mut self), lines 196-226, for what try_next yielded
\* and for what the sink does with a reply frame.  reply is the frame text()
\* sends (None when it sends none) and result is what text() returns.
text_read(incoming, how) ==
    IF incoming.poll = "error" THEN [ reply |-> None, result |-> Err("Tungstenite") ]
    ELSE IF incoming.poll = "end" THEN [ reply |-> None, result |-> end_of_stream ]
    ELSE LET msg == incoming.msg
         IN  CASE msg.type = "Text" ->
                    [ reply |-> None, result |-> [ ok |-> TRUE, val |-> Some(msg.data) ] ]
               [] msg.type = "Ping" ->
                    [ reply |-> Some(Pong(msg.payload)),
                      result |->
                        IF how # "ok" THEN Err("Tungstenite")
                        ELSE IF ~into_text(msg.payload).ok THEN into_text(msg.payload)
                        ELSE [ ok |-> TRUE,
                               val |-> Some(synthetic("ping", into_text(msg.payload).val)) ] ]
               [] msg.type = "Pong" ->
                    [ reply |-> Some(Ping(msg.payload)),
                      result |->
                        IF how # "ok" THEN Err("Tungstenite")
                        ELSE IF ~into_text(msg.payload).ok THEN into_text(msg.payload)
                        ELSE [ ok |-> TRUE,
                               val |-> Some(synthetic("pong", into_text(msg.payload).val)) ] ]
               [] msg.type = "Binary" ->
                    [ reply |-> None,
                      result |->
                        IF ~into_text(msg.payload).ok THEN into_text(msg.payload)
                        ELSE [ ok |-> TRUE,
                               val |-> Some([ text |-> into_text(msg.payload).val,
                                              json |-> FALSE ]) ] ]
               [] msg.type = "Close" ->
                    [ reply |-> None, result |-> on_close(msg.frame) ]

\* WebSocketStream::json(&mut self): text() and serde_json::from_str
json_read(incoming, how) ==
    LET t == text_read(incoming, how)
    IN  IF ~t.result.ok \/ t.result.val = None THEN t
        ELSE IF ~t.result.val[1].json THEN [ reply |-> t.reply, result |-> Err("SerdeJson") ]
        ELSE [ reply |-> t.reply,
               result |-> [ ok |-> TRUE, val |-> Some([ value |-> t.result.val[1].text ]) ] ]

\* Number of text() / json() calls made so far.
Reads == IF lastIn = None THEN 0 ELSE lastIn[1].n

\* Variant of after_read: an item whose read failed stays in the stream.
after_read_retrying(box, result) ==
    IF box # <<>> /\ result.ok THEN Tail(box) ELSE box

\* text(), line 197: try_next() moves the item out of the stream, whatever
\* text() or json() then make of it.
after_read(box, result) == IF box # <<>> THEN Tail(box) ELSE box

\* The effect of one read on the session: try_next() yields the oldest item
\* the transport holds or, when it holds none, waits for the next one.  A reply
\* frame is rejected by a session that is no longer open.
Read(read(_, _), call) ==
    /\ ws # None
    /\ Reads < MaxReads
    /\ \E incoming \in (IF inbox # <<>> THEN { Head(inbox) } ELSE Incoming),
          how \in (IF wsPhase = "open" THEN SendOutcomes ELSE { "rejected" }) :
          LET r == read(incoming, how)
          IN  /\ r.reply = None => how = "rejected"
              /\ r.reply # None => Room
              /\ wire' = IF r.reply = None THEN wire ELSE Handed(r.reply[1], how)
              /\ lastRead' = Some(r.result)
              /\ lastIn' = Some([ n |-> Reads + 1, call |-> call, item |-> incoming,
                                  sent |-> IF r.reply = None THEN "none" ELSE how ])
              /\ inbox' = after_read(inbox, r.result)
              /\ wsPhase' = IF incoming.poll = "end"
                               \/ (incoming.poll = "frame" /\ incoming.msg.type = "Close")
                            THEN "closed" ELSE wsPhase
    /\ UNCHANGED <<ws, lastSend, lastCall, now, phase, pb, builtAt, signs, request, sentAt,
                   response, outcome, reply, warnings>>

ws_text == Read(text_read, "text")

ws_json == Read(json_read, "json")

\* Items that reach the transport before the caller reads
ArrivingFrames ==
    { [ type |-> "Text", data |-> t ] : t \in Texts } \cup
    { Ping(p) : p \in Payloads } \cup
    { [ type |-> "Close", frame |-> None ] }
Arriving == { [ poll |-> "end" ] } \cup { [ poll |-> "frame", msg |-> m ] : m \in ArrivingFrames }

\* The last item of the stream: nothing follows the end or a close frame.
Final(item) == item.poll = "end" \/ (item.poll = "frame" /\ item.msg.type = "Close")

\* The transport receives an item from the peer and holds it for try_next().
Arrive ==
    /\ ws # None
    /\ Yielding
    /\ Len(inbox) < MaxInbox
    /\ inbox # <<>> => ~Final(inbox[Len(inbox)])
    /\ \E item \in Arriving : inbox' = Append(inbox, item)
    /\ UNCHANGED <<ws, wsPhase, wire, lastSend, lastRead, lastCall, lastIn, now, phase, pb,
                   builtAt, signs, request, sentAt, response, outcome, reply, warnings>>

\* text() and json() on a stream whose transport already holds an item
text_buffered == inbox # <<>> /\ ws_text
json_buffered == inbox # <<>> /\ ws_json

\* Close frames the caller passes to close()
CloseArgs == { None, Some([ code |-> 1000, reason |-> "done" ]) }

\* WebSocketStream::close(&mut self, msg): the inner stream's close, which sends
\* a close frame while the session is open and then waits for the peer's
\* close frame ("closing"); on a session that is not open it sends nothing.
close ==
    /\ ws # None
    /\ Room
    /\ \E msg \in CloseArgs, how \in SendOutcomes :
          IF wsPhase = "open"
          THEN /\ wire' = Handed([ type |-> "Close", frame |-> msg ], how)
               /\ wsPhase' = IF how = "rejected" THEN wsPhase ELSE "closing"
               /\ lastSend' = Some(IF how = "ok" THEN [ ok |-> TRUE ] ELSE Err("Tungstenite"))
          ELSE /\ how # "queued"
               /\ wire' = wire
               /\ wsPhase' = wsPhase
               /\ lastSend' = Some(IF how = "ok" THEN [ ok |-> TRUE ] ELSE Err("Tungstenite"))
    /\ UNCHANGED <<ws, lastRead, lastCall, inbox, lastIn, now, phase, pb, builtAt, signs,
                   request, sentAt, response, outcome, reply, warnings>>

(***************************************************************************)
(* Specifications                                                          *)
(***************************************************************************)
Init ==
    /\ now = 0
    /\ phase = "idle"
    /\ pb = None
    /\ builtAt = 0
    /\ signs = 0
    /\ request = None
    /\ sentAt = None
    /\ response = None
    /\ outcome = None
    /\ reply = None
    /\ warnings = <<>>
    /\ ws = None
    /\ wsPhase = "init"
    /\ wire = <<>>
    /\ lastSend = None
    /\ lastRead = None
    /\ lastCall = None
    /\ inbox = <<>>
    /\ lastIn = None

\* Replies the request pipeline is exercised with, and the statuses the
\* classifier is exercised with (the edges of every class).
CoreReplies == Replies({ 200, 404 }, { bd \in BodyReads : bd.json })
Statuses == { 100, 199, 200, 204, 299, 300, 304, 399, 400, 404, 429, 499, 500, 503, 599, 600 }

\* The request pipeline over every endpoint of every client.
Next ==
    \/ Tick
    \/ Construct(Endpoints)
    \/ text(CoreReplies)
    \/ json(CoreReplies)
    \/ WithSymbol
    \/ WithLimit
    \/ WithFromId
    \/ WithStartTime
    \/ WithEndTime
    \/ WithTimeInForce
    \/ WithNewClientOrderId
    \/ WithStopLoss
    \/ WithTakeProfit
    \/ WithStopLossLimit
    \/ WithTakeProfitLimit
    \/ WithIcebergQty
    \/ WithNewOrderRespType
    \/ WithOrderId
    \/ WithListClientOrderId
    \/ WithLimitClientOrderId
    \/ WithStopClientOrderId
    \/ WithLimitIcebergQty
    \/ WithStopIcebergQty
    \/ WithStopLimitPrice
    \/ WithAddressTag
    \/ WithName
    \/ WithAsset
    \/ WithStatus
    \/ WithEmail
    \/ WithPage
    \/ WithRecvWindow
    \/ IntoLimitMakerOrder

Spec == Init /\ [][Next]_vars

\* The response classifier over every status class.
NextClassify ==
    \/ Tick
    \/ Construct(GeneralClient \cup UserDataClient)
    \/ text(Replies(Statuses, BodyReads))
    \/ json(Replies(Statuses, BodyReads))

SpecClassify == Init /\ [][NextClassify]_vars

\* Replies of every class of status, and a send that fails.
AnyClassReplies == Replies({ 200, 404, 503 }, { bd \in BodyReads : bd.json })

\* The dispatch of the requests of the withdrawal client, with replies of
\* every class.
NextDispatch ==
    \/ Tick
    \/ Construct(WithdrawalClient)
    \/ WithStatus
    \/ WithRecvWindow
    \/ text(AnyClassReplies)
    \/ json(AnyClassReplies)

SpecDispatch == Init /\ [][NextDispatch]_vars

\* One WebSocket session.
NextWs ==
    \/ connect
    \/ subscribe
    \/ unsubscribe
    \/ ws_text
    \/ ws_json
    \/ close

SpecWs == Init /\ [][NextWs]_vars

\* A WebSocket session whose transport holds items before they are read.
NextRead ==
    \/ connect
    \/ Arrive
    \/ text_buffered
    \/ json_buffered
    \/ close

SpecRead == Init /\ [][NextRead]_vars

\* A WebSocket session that subscribes to one channel, whichever it is.
NextChannel ==
    \/ connect
    \/ subscribe_first

SpecChannel == Init /\ [][NextChannel]_vars

\* Ping and pong frames the peer sends of its own accord, all of them before
\* the caller's first read: finitely many.
PeerUnsolicited ==
    /\ ws # None
    /\ wsPhase = "open"
    /\ lastRead = None
    /\ Len(inbox) < MaxInbox
    /\ \E p \in Payloads :
          \E m \in { Ping(p), Pong(p) } :
             inbox' = Append(inbox, [ poll |-> "frame", msg |-> m ])
    /\ UNCHANGED <<ws, wsPhase, wire, lastSend, lastRead, lastCall, lastIn, now, phase, pb,
                   builtAt, signs, request, sentAt, response, outcome, reply, warnings>>

\* The peer takes the oldest frame off the connection and answers a ping with
\* one pong of the same payload; it answers nothing else with a ping or pong.
PeerTakes ==
    /\ ws # None
    /\ wire # <<>>
    /\ wire' = Tail(wire)
    /\ inbox' = IF Head(wire).frame.type = "Ping"
                THEN Append(inbox, [ poll |-> "frame",
                                     msg |-> Pong(Head(wire).frame.payload) ])
                ELSE inbox
    /\ UNCHANGED <<ws, wsPhase, lastSend, lastRead, lastCall, lastIn, now, phase, pb,
                   builtAt, signs, request, sentAt, response, outcome, reply, warnings>>

\* WebSocketStream::text(&mut self) called again and again on an open session
\* whose transport holds an item and accepts every reply frame; the calls are
\* not counted.
text_again ==
    /\ ws # None
    /\ wsPhase = "open"
    /\ inbox # <<>>
    /\ LET r == text_read(Head(inbox), "ok")
       IN  /\ r.reply # None => Room
           /\ wire' = IF r.reply = None THEN wire ELSE Handed(r.reply[1], "ok")
           /\ lastRead' = Some(r.result)
           /\ inbox' = after_read(inbox, r.result)
    /\ UNCHANGED <<ws, wsPhase, lastSend, lastCall, lastIn, now, phase, pb, builtAt, signs,
                   request, sentAt, response, outcome, reply, warnings>>

\* A WebSocket session with a peer that answers pings, read by a caller that
\* keeps calling text(): every frame handed to the transport reaches the peer
\* and every item the transport holds is read.
NextKeepalive ==
    \/ connect
    \/ PeerUnsolicited
    \/ PeerTakes
    \/ text_again

SpecKeepalive ==
    Init /\ [][NextKeepalive]_vars /\ WF_vars(PeerTakes) /\ WF_vars(text_again)

(***************************************************************************)
(* Properties                                                              *)
(***************************************************************************)
\* The parameters a request carries: its form body if it has one, else its
\* query string.
Payload(req) == IF req.body # None THEN req.body[1] ELSE req.query

Names(pairs) == { pairs[i].name : i \in 1..Len(pairs) }

HeaderValues(req, name) ==
    { req.headers[i].value : i \in { j \in 1..Len(req.headers) : req.headers[j].name = name } }

Signed == pb # None /\ pb[1].secret_key # None

\* C1: the classification is total in the status of the reply.  A 2xx reply is
\* returned as success without a warning; a 4xx reply fails the call with a
\* Binance (ClientError) error that carries the status code, its canonical
\* reason phrase ("UNKNOWN" when it has none) and the body text that was read;
\* every other status is returned as success after one warning.
C1_ResponseClassification ==
    (reply # None /\ reply[1].sent) =>
        LET st == reply[1].status
            res == response[1]
        IN  /\ st \in 200..299 => (res.ok /\ res.status = st /\ warnings = <<>>)
            /\ st \in 400..499 =>
                 /\ ~res.ok
                 /\ res.err.kind = "Binance"
                 /\ res.err.code = st
                 /\ res.err.reason = (IF canonical_reason(st) = None THEN "UNKNOWN"
                                      ELSE canonical_reason(st)[1])
                 /\ reply[1].body.text # None => res.err.message = reply[1].body.text[1]
                 /\ outcome[1] = [ ok |-> FALSE, err |-> res.err ]
                 /\ warnings = <<>>
            /\ st \notin (200..299) \cup (400..499) =>
                 (res.ok /\ res.status = st /\ warnings = << st >>)

C1_Witness ==
    /\ reply # None /\ reply[1].sent /\ reply[1].status = 404
    /\ ~response[1].ok /\ response[1].err.code = 404

\* C2: in every state of a Parameter Record, also after a sign attempt that
\* returned an error, signature is present exactly when timestamp is present.
C2_SignatureIffTimestamp ==
    pb # None =>
        ((pb[1].params["signature"] # None) <=> (pb[1].params["timestamp"] # None))

\* C3: for a signed request, the parameters on the wire are the HMAC input
\* followed by the signature pair: the last pair is signature, the one before
\* it is timestamp, the digest is taken over exactly the pairs before the
\* signature, and those are the serialization of the record with timestamp
\* present and signature absent.
C3_SignedPayload ==
    (request # None /\ Signed) =>
        LET payload == Payload(request[1])
            n == Len(payload)
            message == SubSeq(payload, 1, n - 1)
            unsigned == [ pb[1].params EXCEPT !["signature"] = None ]
        IN  /\ n >= 2
            /\ payload[n].name = "signature"
            /\ payload[n - 1].name = "timestamp"
            /\ "signature" \notin Names(message)
            /\ payload[n].value = HmacSha256Hex(pb[1].secret_key[1], message)
            /\ unsigned["timestamp"] # None
            /\ message = SerializeFrom(unsigned, 1)

C3_Witness ==
    /\ request # None /\ Signed /\ request[1].method = "POST"
    /\ Len(Payload(request[1])) > 2

\* Signing happens once per dispatch, inside the dispatch step: a record
\* under construction is unsigned; a consumed builder with a secret key was
\* signed exactly once and one without was never signed; the timestamp of a
\* signed request is the clock reading of the step that sent it; and a consumed
\* builder is never dispatched again.
C4_State ==
    /\ phase = "building" =>
          /\ signs = 0
          /\ request = None
          /\ pb[1].params["timestamp"] = None
          /\ pb[1].params["signature"] = None
    /\ phase = "consumed" => signs = (IF Signed THEN 1 ELSE 0)
    /\ (request # None /\ Signed) =>
          /\ pb[1].params["timestamp"] = sentAt
          /\ \E i \in 1..Len(Payload(request[1])) :
                Payload(request[1])[i] =
                    [ name |-> "timestamp", value |-> Text(ToString(sentAt[1])) ]

C4_Step ==
    /\ phase = "consumed" =>
          (phase' = "consumed" /\ pb' = pb /\ request' = request /\ signs' = signs)
    /\ (phase = "building" /\ phase' = "consumed" /\ request' # None) =>
          sentAt' = Some(now)

\* C4: in every state and over every step, a builder is signed exactly once,
\* by the step that dispatches it, with the clock reading of that step as its
\* timestamp, and a consumed builder is never dispatched or signed again.
C4_SignedOncePerDispatch == []C4_State /\ [][C4_Step]_vars

C4_Witness ==
    /\ request # None /\ Signed /\ signs = 1
    /\ sentAt[1] > builtAt

\* C5: a request built with an API key carries exactly one X-MBX-APIKEY header,
\* whose value is that key, whatever the verb and with or without a secret
\* key; a request built without an API key carries no such header.
C5_ApiKeyHeader ==
    request # None =>
        LET keys == { i \in 1..Len(request[1].headers) :
                        request[1].headers[i].name = "X-MBX-APIKEY" }
        IN  IF pb[1].api_key # None
            THEN /\ Cardinality(keys) = 1
                 /\ HeaderValues(request[1], "X-MBX-APIKEY") = { pb[1].api_key[1] }
            ELSE keys = {}

C5_Witness ==
    /\ request # None /\ pb[1].api_key # None /\ ~Signed
    /\ request[1].method = "DELETE"
    /\ HeaderValues(request[1], "X-MBX-APIKEY") = { pb[1].api_key[1] }

\* The parameters are in a form body: the body is the serialized record, the
\* query string is empty and the content type is declared.
InFormBody(req) ==
    /\ req.body = Some(SerializeFrom(pb[1].params, 1))
    /\ req.query = <<>>
    /\ HeaderValues(req, "Content-Type") = { "application/x-www-form-urlencoded" }

\* The parameters are in the query string: no body, no content type.
InQueryString(req) ==
    /\ req.body = None
    /\ req.query = SerializeFrom(pb[1].params, 1)
    /\ HeaderValues(req, "Content-Type") = {}

\* C6 as stated: every signed POST, PUT or DELETE request carries its
\* parameters, timestamp and signature included, in a form body.
C6_SignedPostPutDeleteInBody ==
    (request # None /\ Signed /\ request[1].method \in { "POST", "PUT", "DELETE" }) =>
        /\ InFormBody(request[1])
        /\ { "timestamp", "signature" } \subseteq Names(request[1].body[1])

\* C6 amended: every signed POST or PUT request carries its parameters,
\* timestamp and signature included, in a form body and not in the query
\* string; a signed DELETE request carries them in the query string.
C6_SignedPostPutInBody ==
    (request # None /\ Signed) =>
        /\ request[1].method \in { "POST", "PUT" } =>
              /\ InFormBody(request[1])
              /\ { "timestamp", "signature" } \subseteq Names(request[1].body[1])
        /\ request[1].method = "DELETE" =>
              /\ InQueryString(request[1])
              /\ { "timestamp", "signature" } \subseteq Names(request[1].query)

C6_Witness ==
    /\ request # None /\ Signed /\ request[1].method = "POST"
    /\ request[1].body # None
    /\ { "symbol", "timestamp", "signature" } \subseteq Names(request[1].body[1])

Unstamped(req) == { "timestamp", "signature" } \cap Names(Payload(req)) = {}

\* C7 as stated: a request built without a secret key carries the record as it
\* is, without timestamp and signature, in the query string and has no body,
\* whatever its verb.
C7_UnsignedInQueryString ==
    (request # None /\ ~Signed) =>
        (InQueryString(request[1]) /\ Unstamped(request[1]))

\* C7 amended: a request built without a secret key carries the record as it
\* is, without timestamp and signature: in the query string and with no body
\* when its verb is GET or DELETE, in a form body when its verb is POST or PUT.
C7_UnsignedAsIs ==
    (request # None /\ ~Signed) =>
        /\ Unstamped(request[1])
        /\ pb[1].params["timestamp"] = None /\ pb[1].params["signature"] = None
        /\ request[1].method \in { "GET", "DELETE" } => InQueryString(request[1])
        /\ request[1].method \in { "POST", "PUT" } => InFormBody(request[1])

C7_Witness ==
    /\ request # None /\ ~Signed /\ request[1].method = "PUT"
    /\ request[1].body # None
    /\ Names(request[1].body[1]) = { "listenKey" }

\* Secret keys another client could hold.
OtherSecretKeys == { "secret-key-2" }

RedactPairs(pairs) ==
    [ i \in 1..Len(pairs) |->
        IF pairs[i].name = "signature"
        THEN [ name |-> "signature", value |-> Text("<digest>") ]
        ELSE pairs[i] ]

\* A request without its signature digest.
Redact(req) ==
    [ req EXCEPT !.query = RedactPairs(@),
                 !.body = IF @ = None THEN None ELSE Some(RedactPairs(@[1])) ]

\* C8: the secret key is no header value and no query or body value of a
\* request, and the same builder dispatched at the same instant with another
\* secret key gives the same request up to the signature digest.
C8_SecretNotTransmitted ==
    (request # None /\ Signed /\ sentAt = Some(now)) =>
        LET secret == pb[1].secret_key[1]
            req == request[1]
            before == [ pb[1].params EXCEPT !["timestamp"] = None, !["signature"] = None ]
        IN  /\ \A i \in 1..Len(req.headers) : req.headers[i].value # secret
            /\ \A i \in 1..Len(Payload(req)) : Payload(req)[i].value # Text(secret)
            /\ \A other \in OtherSecretKeys :
                  LET alt == builder([ pb[1] EXCEPT !.params = before,
                                                    !.secret_key = Some(other) ])
                  IN  /\ alt.ok
                      /\ alt.rb.error = None
                      /\ Redact(alt.rb.request) = Redact(req)
                      /\ alt.rb.request # req

C8_Witness ==
    /\ request # None /\ Signed /\ sentAt = Some(now)
    /\ "signature" \in Names(Payload(request[1]))

\* The control messages (Text frames) whose send returned Ok, oldest first.
IsControl(e) == e.frame.type = "Text"
ControlSent == SelectSeq(wire, LAMBDA e : IsControl(e) /\ e.ok)

\* The request id is the number of control messages sent successfully, so
\* it starts at 0 and the k-th such message (SET_PROPERTY first) carries id
\* k-1, no two of them the same id; a step changes the id only by sending a
\* control message successfully, and then by exactly 1; reads, ping and pong
\* replies and close leave it unchanged.
C9_State ==
    /\ ws # None => ws[1].id = Len(ControlSent)
    /\ \A k \in 1..Len(ControlSent) : ControlSent[k].frame.json.id = k - 1
    /\ \A j, k \in 1..Len(ControlSent) :
          j # k => ControlSent[j].frame.json.id # ControlSent[k].frame.json.id
    /\ Len(ControlSent) > 0 => ControlSent[1].frame.json.method = "SET_PROPERTY"

C9_Step ==
    (ws # None /\ ws' # None) =>
        /\ ws'[1].id >= ws[1].id
        /\ ws'[1].id # ws[1].id =>
              /\ ws'[1].id = ws[1].id + 1
              /\ wire' = Append(wire, wire'[Len(wire')])
              /\ IsControl(wire'[Len(wire')])
              /\ wire'[Len(wire')].ok
              /\ wire'[Len(wire')].frame.json.id = ws[1].id
              /\ lastRead' = lastRead
        /\ (Len(wire') > Len(wire) /\ IsControl(wire'[Len(wire')]) /\ wire'[Len(wire')].ok) =>
              ws'[1].id = ws[1].id + 1

\* C9: the request id starts at 0, the k-th control message sent successfully
\* carries id k-1, and the id is incremented by exactly 1 by each successful
\* send of a control message and by no other step, so that no two successfully
\* sent control messages of a session share an id.
C9_RequestId == []C9_State /\ [][C9_Step]_vars

C9_Witness ==
    /\ ws # None /\ ws[1].id = 2
    /\ \E i \in 1..Len(wire) : wire[i].frame.type = "Pong"
    /\ lastRead # None

SetProperty ==
    SubscribeMessage("SET_PROPERTY", << JsonString("combined"), JsonBool(TRUE) >>, 0)

\* C10: a handle exists only if the first frame handed to the transport is the
\* SET_PROPERTY message with params ["combined", true] and id 0, sent
\* successfully and exactly once; a failed connect leaves an error and no
\* handle; so the SET_PROPERTY frame precedes every SUBSCRIBE and UNSUBSCRIBE
\* frame and every result of a read.
C10_ConnectSetsProperty ==
    /\ ws # None =>
          /\ wsPhase # "init" /\ wsPhase # "connect_failed"
          /\ Len(wire) >= 1
          /\ wire[1] = [ frame |-> SetProperty, ok |-> TRUE ]
    /\ Cardinality({ i \in 1..Len(wire) :
                       IsControl(wire[i])
                       /\ wire[i].frame.json.method = "SET_PROPERTY" }) <= 1
    /\ wsPhase = "open" => ws # None
    /\ wsPhase = "connect_failed" =>
          (ws = None /\ lastSend # None /\ ~lastSend[1].ok)
    /\ \A i \in 1..Len(wire) :
          (IsControl(wire[i]) /\ wire[i].frame.json.method \in { "SUBSCRIBE", "UNSUBSCRIBE" })
              => (i > 1 /\ wire[1] = [ frame |-> SetProperty, ok |-> TRUE ])
    /\ lastRead # None => (Len(wire) >= 1 /\ wire[1] = [ frame |-> SetProperty, ok |-> TRUE ])

C10_Witness ==
    /\ ws # None /\ wsPhase = "open"
    /\ Len(wire) >= 2 /\ wire[2].frame.type = "Text"
    /\ wire[2].frame.json.method = "SUBSCRIBE"
    /\ lastRead # None /\ lastRead[1].ok

\* The topic strings of the channels a caller subscribes to, as the exchange
\* documents them.
Topic(channel) ==
    CASE channel = Channel("AggTrade", [ symbol |-> "BNBUSDT" ]) -> "bnbusdt@aggTrade"
      [] channel = Channel("Kline", [ symbol |-> "BNBUSDT", interval |-> "OneMinute" ]) ->
            "bnbusdt@kline_1m"

\* The envelope a call must produce when the request id is id.
Envelope(call, id) ==
    [ type |-> "Text",
      json |-> [ method |-> IF call.op = "subscribe" THEN "SUBSCRIBE" ELSE "UNSUBSCRIBE",
                 params |-> [ i \in 1..Len(call.channels) |->
                                JsonString(Topic(call.channels[i])) ],
                 id |-> id ] ]

IsSubscription(e) ==
    IsControl(e) /\ e.frame.json.method \in { "SUBSCRIBE", "UNSUBSCRIBE" }

\* A subscribe or unsubscribe call hands at most one frame to the
\* transport, and exactly one when it returns Ok; that frame is a text frame
\* whose method is SUBSCRIBE respectively UNSUBSCRIBE, whose params are the
\* topic strings of the given channels in the given order (none for the empty
\* list) and whose id is the request id at the time of the call.
C11_Step ==
    (ws # None /\ ws' # None) =>
        /\ ws'[1].id # ws[1].id =>
              /\ lastCall' # None
              /\ lastSend' = Some([ ok |-> TRUE ])
              /\ wire' = Append(wire, [ frame |-> Envelope(lastCall'[1], ws[1].id),
                                        ok |-> TRUE ])
        /\ (Len(wire') > Len(wire) /\ IsSubscription(wire'[Len(wire')])) =>
              /\ lastCall' # None
              /\ Len(wire') = Len(wire) + 1
              /\ wire'[Len(wire')].frame = Envelope(lastCall'[1], ws[1].id)
              /\ Len(wire'[Len(wire')].frame.json.params) = Len(lastCall'[1].channels)
        /\ lastCall' # lastCall => Len(wire') <= Len(wire) + 1

\* C11: every step of a session satisfies this: subscribe and unsubscribe each
\* send exactly one text frame, the envelope of their method, of the topics of
\* their channels in order and of the current request id.
C11_SubscribeEnvelope == [][C11_Step]_vars

C11_Witness ==
    /\ lastCall # None /\ lastCall[1].op = "unsubscribe" /\ Len(lastCall[1].channels) = 2
    /\ lastSend = Some([ ok |-> TRUE ])
    /\ Len(wire) = 3
    /\ wire[2].frame = SubscribeMessage("SUBSCRIBE", <<>>, 1)
    /\ wire[3].frame = SubscribeMessage("UNSUBSCRIBE",
                                        << JsonString("bnbusdt@aggTrade"),
                                           JsonString("bnbusdt@kline_1m") >>, 2)
    /\ wire[3].ok

\* A step that is one text() or json() call, and what that call was given.
ReadStep == lastIn' # None /\ lastIn'[1].n = Reads + 1
ReadFrame(type) ==
    /\ ReadStep
    /\ lastIn'[1].item.poll = "frame"
    /\ lastIn'[1].item.msg.type = type

\* The synthetic event { key: P } as the call surfaces it: a text for text(),
\* the parsed value for json().
SyntheticEvent(key, payload, call) ==
    LET str == "{\"" \o key \o "\":\"" \o payload.bytes \o "\"}"
    IN  [ ok |-> TRUE,
          val |-> Some(IF call = "text" THEN [ text |-> str, json |-> TRUE ]
                                       ELSE [ value |-> str ]) ]

\* A read that receives a ping frame with payload P, whatever P, hands one
\* pong frame with payload P to the transport and, when the transport takes
\* it, returns the synthetic event {"ping": P}; it consumes no further
\* inbound item.
C12_Step ==
    ReadFrame("Ping") =>
        LET in == lastIn'[1]
            P == in.item.msg.payload
        IN  /\ in.sent # "rejected" =>
                  wire' = Append(wire, [ frame |-> Pong(P), ok |-> in.sent = "ok" ])
            /\ in.sent = "rejected" => wire' = wire
            /\ in.sent = "ok" => lastRead' = Some(SyntheticEvent("ping", P, in.call))
            /\ Len(inbox') >= Len(inbox) - 1

\* C12: every read of an inbound ping frame, whatever its payload P, emits one
\* pong frame with payload P and surfaces one synthetic event {"ping": P}
\* before any further inbound frame is yielded.
C12_PingAnswered == [][C12_Step]_vars

\* A read that receives a pong frame with payload P hands one ping frame
\* with payload P to the transport and, when the transport takes it, returns
\* the synthetic event {"pong": P}.
C13_Step ==
    ReadFrame("Pong") =>
        LET in == lastIn'[1]
            P == in.item.msg.payload
        IN  /\ in.sent # "rejected" =>
                  wire' = Append(wire, [ frame |-> Ping(P), ok |-> in.sent = "ok" ])
            /\ in.sent = "rejected" => wire' = wire
            /\ in.sent = "ok" => lastRead' = Some(SyntheticEvent("pong", P, in.call))

\* C13: every read of an inbound pong frame with payload P sends one ping
\* frame with payload P and surfaces one synthetic event {"pong": P}.
C13_PongReciprocated == [][C13_Step]_vars

\* The last read was given a frame of the given type.
LastReadFrame(type) ==
    /\ lastIn # None
    /\ lastIn[1].item.poll = "frame"
    /\ lastIn[1].item.msg.type = type

\* C14: a read that receives a close frame fails: with the code and reason of
\* the frame when it carries them, with code 1006 (Abnormal) when it carries
\* none; it returns neither data nor None.  This holds for text() and json().
C14_CloseIsError ==
    LastReadFrame("Close") =>
        LET frame == lastIn[1].item.msg.frame
        IN  /\ lastRead # None
            /\ ~lastRead[1].ok
            /\ lastRead[1].err.kind = "Binance"
            /\ frame # None =>
                  /\ lastRead[1].err.code = frame[1].code
                  /\ lastRead[1].err.reason = frame[1].reason
            /\ frame = None => lastRead[1].err.code = 1006

C14_Witness ==
    /\ LastReadFrame("Close")
    /\ lastIn[1].call = "json"
    /\ lastIn[1].item.msg.frame = Some([ code |-> 1000, reason |-> "bye" ])
    /\ lastRead = Some([ ok |-> FALSE,
                         err |-> [ kind |-> "Binance", code |-> 1000, reason |-> "bye" ] ])

\* The caller's close() has returned Ok: its close frame was sent.
ClosedByCaller ==
    \E i \in 1..Len(wire) : wire[i].frame.type = "Close" /\ wire[i].ok

\* The result of a read that surfaces a frame to the caller.
SurfacesData(result) == result.ok /\ result.val # None

AppendsControl == Len(wire') > Len(wire) /\ IsControl(wire'[Len(wire')])

C16_NoneOnlyAtEnd ==
    lastIn # None =>
        /\ lastRead # None
        /\ (lastRead[1] = [ ok |-> TRUE, val |-> None ]) <=> (lastIn[1].item.poll = "end")
        /\ lastIn[1].item.poll = "error" => ~lastRead[1].ok
        /\ lastIn[1].item.poll = "frame" => (~lastRead[1].ok \/ lastRead[1].val # None)

C16_Witness ==
    /\ lastIn # None /\ lastIn[1].n = 2
    /\ lastIn[1].call = "json" /\ lastIn[1].item.poll = "end"
    /\ lastRead = Some([ ok |-> TRUE, val |-> None ])

BadJsonText == [ type |-> "Text", data |-> [ text |-> "oops", json |-> FALSE ] ]

\* Each text() or json() call takes exactly the oldest item the transport
\* holds and yields one outcome for it, so outcomes come in arrival order with
\* no item skipped or duplicated; no other step touches the results or puts an
\* item back; a text frame that json() cannot deserialize yields a
\* deserialization error and is gone from the stream like any other.
C17_Step ==
    /\ ReadStep =>
          /\ inbox # <<>> => (lastIn'[1].item = Head(inbox) /\ inbox' = Tail(inbox))
          /\ inbox = <<>> => inbox' = <<>>
          /\ lastRead' # None
          /\ (lastIn'[1].item.poll = "frame" /\ lastIn'[1].item.msg.type = "Text") =>
                LET data == lastIn'[1].item.msg.data
                IN  lastRead' =
                      Some(IF lastIn'[1].call = "text"
                           THEN [ ok |-> TRUE, val |-> Some(data) ]
                           ELSE IF data.json
                                THEN [ ok |-> TRUE, val |-> Some([ value |-> data.text ]) ]
                                ELSE [ ok |-> FALSE, err |-> [ kind |-> "SerdeJson" ] ])
    /\ ~ReadStep =>
          /\ lastIn' = lastIn
          /\ lastRead' = lastRead
          /\ inbox' # inbox => (Len(inbox') = Len(inbox) + 1
                                /\ SubSeq(inbox', 1, Len(inbox)) = inbox)

\* C17: every text() or json() call consumes exactly one inbound item and
\* yields exactly one outcome for it, in arrival order, and an item whose JSON
\* deserialization fails is not read again.
C17_OneFramePerRead == [][C17_Step]_vars

C17_Witness ==
    /\ lastIn # None /\ lastIn[1].n = 1 /\ lastIn[1].call = "json"
    /\ lastIn[1].item = [ poll |-> "frame", msg |-> BadJsonText ]
    /\ lastRead = Some([ ok |-> FALSE, err |-> [ kind |-> "SerdeJson" ] ])
    /\ inbox = << [ poll |-> "frame",
                    msg |-> [ type |-> "Ping", payload |-> [ bytes |-> "p1", utf8 |-> TRUE ] ] ] >>

Has(pairs, name, str) ==
    \E i \in 1..Len(pairs) : pairs[i] = [ name |-> name, value |-> Text(str) ]

\* C18: a dispatched limit order that carries an iceberg quantity carries
\* timeInForce GTC, whatever setters were called on its builder and in
\* whatever order: icebergQty is never sent together with IOC or FOK.
C18_IcebergIsGtc ==
    (request # None /\ pb[1].kind = "LimitOrderParams"
       /\ pb[1].params["iceberg_qty"] # None) =>
        /\ pb[1].params["time_in_force"] = Some("Gtc")
        /\ "icebergQty" \in Names(Payload(request[1]))
        /\ Has(Payload(request[1]), "timeInForce", "GTC")

StopTypes == { "StopLoss", "TakeProfit", "StopLossLimit", "TakeProfitLimit" }
StopTypeNames == { "STOP_LOSS", "TAKE_PROFIT", "STOP_LOSS_LIMIT", "TAKE_PROFIT_LIMIT" }

OrderBuilder == pb # None /\ pb[1].kind \in { "LimitOrderParams", "MarketOrderParams" }

\* In every state of a limit-order or market-order builder, the stop price is
\* present exactly when the order type is a stop type, in the record and in
\* the request that is sent.
C19_State ==
    OrderBuilder =>
        /\ pb[1].params["stop_price"] # None <=>
              (pb[1].params["order_type"] # None
                 /\ pb[1].params["order_type"][1] \in StopTypes)
        /\ request # None =>
              ("stopPrice" \in Names(Payload(request[1])) <=>
                 \E t \in StopTypeNames : Has(Payload(request[1]), "type", t))

\* A step that changes the order type or the stop price of such a builder sets
\* both, to a stop type and a stop price, and changes no other field.
C19_Step ==
    (OrderBuilder /\ pb' # None /\ pb'[1].kind = pb[1].kind
       /\ (pb'[1].params["order_type"] # pb[1].params["order_type"]
             \/ pb'[1].params["stop_price"] # pb[1].params["stop_price"])) =>
        /\ pb'[1].params["order_type"] # None
        /\ pb'[1].params["order_type"][1] \in StopTypes
        /\ pb'[1].params["stop_price"] # None
        /\ \A f \in Fields \ { "order_type", "stop_price" } :
              pb'[1].params[f] = pb[1].params[f]

Writes ==
    [ Symbol |-> { "symbol" }, Limit |-> { "limit" }, FromId |-> { "from_id" },
      StartTime |-> { "start_time" }, EndTime |-> { "end_time" },
      TimeInForce |-> { "time_in_force" }, Price |-> { "price" },
      NewClientOrderId |-> { "new_client_order_id" }, StopPrice |-> {},
      MarketOrderStopPrice |-> { "order_type", "stop_price" },
      LimitOrderStopPrice |-> { "order_type", "stop_price" },
      LimitMaker |-> {},
      IcebergQty |-> { "time_in_force", "iceberg_qty" },
      NewOrderRespType |-> { "new_order_resp_type" }, OrderId |-> { "order_id" },
      ListClientOrderId |-> { "list_client_order_id" },
      LimitClientOrderId |-> { "limit_client_order_id" },
      StopClientOrderId |-> { "stop_client_order_id" },
      LimitIcebergQty |-> { "limit_iceberg_qty" },
      StopIcebergQty |-> { "stop_iceberg_qty" },
      StopLimitPrice |-> { "stop_limit_time_in_force", "stop_limit_price" },
      AddressTag |-> { "address_tag" }, Name |-> { "name" }, Asset |-> { "asset" },
      Status |-> { "status" }, Email |-> { "email" }, Page |-> { "page" },
      RecvWindow |-> { "recv_window" } ]

\* The fields the setters a request-kind declares can write.
Settable(kind) == UNION { Writes[cap] : cap \in Capabilities[kind] }

\* The fields the constructor of a request-kind fills in.
Constructed(kind) ==
    IF kind = "LimitMakerOrderParams"
    THEN { "symbol", "side", "order_type", "price", "quantity" }
    ELSE { f \in Fields : \E e \in Endpoints :
              e.kind = kind /\ \E p \in e.inits : p[f] # None }

Present(p) == { f \in Fields : p[f] # None }

\* In every record, each present field was filled in by the constructor of
\* its request-kind, is written by a setter whose capability the kind
\* declares, or is timestamp or signature; a limit-maker order has no
\* timeInForce, icebergQty or stop price.
C20_State ==
    pb # None =>
        /\ Present(pb[1].params) \subseteq
              Constructed(pb[1].kind) \cup Settable(pb[1].kind)
                \cup { "timestamp", "signature" }
        /\ { "timestamp", "signature" } \cap Present(pb[1].params) # {} =>
              phase = "consumed"
        /\ pb[1].kind = "LimitMakerOrderParams" =>
              Present(pb[1].params)
                \cap { "time_in_force", "iceberg_qty", "stop_price" } = {}

\* A step changes a field of a builder under construction only if the
\* request-kind declares a capability whose setter writes it; the kind changes
\* only by the conversion its LimitMaker capability allows.
C20_Step ==
    (phase = "building" /\ phase' = "building") =>
        IF pb'[1].kind = pb[1].kind
        THEN \A f \in Fields :
                pb'[1].params[f] # pb[1].params[f] => f \in Settable(pb[1].kind)
        ELSE /\ "LimitMaker" \in Capabilities[pb[1].kind]
             /\ pb'[1].kind = "LimitMakerOrderParams"

\* C20: a setter applies to a builder only if its request-kind declares the
\* setter's capability, so every present field of every reachable record comes
\* from the constructor, from a setter of a declared capability, or from
\* signing.
C20_CapabilityGated == []C20_State /\ [][C20_Step]_vars

C20_Witness ==
    /\ request # None /\ pb[1].kind = "LimitMakerOrderParams"
    /\ Names(Payload(request[1])) =
          { "symbol", "side", "type", "quantity", "price", "newClientOrderId",
            "timestamp", "signature" }

EngineOwned == { "timestamp", "signature" }

\* From construction until dispatch both engine-owned fields are absent.
C21_State ==
    (pb # None /\ phase = "building") =>
        \A f \in EngineOwned : pb[1].params[f] = None

\* A step that changes an engine-owned field is the dispatch of a builder
\* that has a secret key, in which sign is called; every other step (the
\* constructors, the setters, the conversion, an unsigned dispatch) leaves
\* both as they are.
C21_Step ==
    /\ (pb = None /\ pb' # None) => \A f \in EngineOwned : pb'[1].params[f] = None
    /\ (pb # None /\ pb' # None
          /\ \E f \in EngineOwned : pb'[1].params[f] # pb[1].params[f]) =>
          /\ phase = "building" /\ phase' = "consumed"
          /\ pb[1].secret_key # None
          /\ signs' = signs + 1
          /\ \A f \in Fields \ EngineOwned : pb'[1].params[f] = pb[1].params[f]

\* C21: no endpoint constructor and no setter writes timestamp or signature:
\* both are absent from construction until the dispatch step calls sign, and
\* sign is the only operation that writes them.
C21_EngineOwnedFields == []C21_State /\ [][C21_Step]_vars

C21_Witness ==
    /\ phase = "consumed" /\ Signed /\ signs = 1
    /\ pb[1].params["recv_window"] # None
    /\ pb[1].params["new_client_order_id"] # None
    /\ pb[1].params["timestamp"] # None /\ pb[1].params["signature"] # None

\* The topic of a channel as the exchange names it: the stream suffix of each
\* per-symbol variant, the codes of the intervals, levels and speeds, and the
\* lowercase form of the symbols.
Suffix ==
    [ AggTrade |-> "@aggTrade", Trade |-> "@trade", MiniTicker |-> "@miniTicker",
      Ticker |-> "@ticker", BookTicker |-> "@bookTicker" ]
Bare ==
    [ AllMiniTickers |-> "!miniTicker@arr", AllTickers |-> "!ticker@arr",
      AllBookTickers |-> "!bookTicker" ]
IntervalCode ==
    [ OneMinute |-> "1m", ThreeMinutes |-> "3m", FiveMinutes |-> "5m",
      FifTeenMinutes |-> "15m", ThirtyMinutes |-> "30m", OneHour |-> "1h",
      TwoHours |-> "2h", FourHours |-> "4h", SixHours |-> "6h", EightHours |-> "8h",
      TwelveHours |-> "12h", OneDay |-> "1d", ThreeDays |-> "3d", OneWeek |-> "1w",
      OneMonth |-> "1M" ]
LevelCode == [ Five |-> "5", Ten |-> "10", Twenty |-> "20" ]
SpeedCode == [ HundredMillis |-> "100ms", ThousandMillis |-> "1000ms" ]
Lower == [ BNBUSDT |-> "bnbusdt", ETHUSDT |-> "ethusdt", bnbusdt |-> "bnbusdt" ]

ExpectedTopic(c) ==
    IF c.variant \in DOMAIN Suffix THEN Lower[c.symbol] \o Suffix[c.variant]
    ELSE IF c.variant \in DOMAIN Bare THEN Bare[c.variant]
    ELSE IF c.variant = "Kline"
         THEN Lower[c.symbol] \o "@kline_" \o IntervalCode[c.interval]
    ELSE IF c.variant = "PartialDepth"
         THEN Lower[c.symbol] \o "@depth" \o LevelCode[c.level] \o "@" \o SpeedCode[c.speed]
    ELSE IF c.variant = "Depth" THEN Lower[c.symbol] \o "@depth@" \o SpeedCode[c.speed]
    ELSE c.listen_key

\* The topic a subscription put on the wire for the one channel it was given.
Rendered(e) == e.frame.json.params[1].str

\* C22: the topic sent for a channel is, for every variant, the lowercased
\* symbol followed by the suffix of the variant (with the interval, level and
\* speed codes), the fixed string of a symbol-less variant, or the listen key
\* unchanged; it depends on the channel only.
C22_ChannelRendering ==
    [][ (Len(wire') > Len(wire) /\ IsSubscription(wire'[Len(wire')])) =>
            LET c == lastCall'[1].channels[1]
                topic == Rendered(wire'[Len(wire')])
            IN  /\ Len(lastCall'[1].channels) = 1
                /\ topic = ExpectedTopic(c)
                /\ c = Channel("BookTicker", [ symbol |-> "BNBUSDT" ]) =>
                      topic = "bnbusdt@bookTicker"
                /\ c = Channel("Kline", [ symbol |-> "BNBUSDT", interval |-> "OneMinute" ]) =>
                      topic = "bnbusdt@kline_1m"
                /\ c = Channel("PartialDepth", [ symbol |-> "ETHUSDT", level |-> "Five",
                                                 speed |-> "HundredMillis" ]) =>
                      topic = "ethusdt@depth5@100ms"
                /\ c = Channel("UserData", [ listen_key |-> "LISTEN@Key" ]) =>
                      topic = "LISTEN@Key" ]_vars

C22_Witness ==
    /\ lastCall = Some([ op |-> "subscribe",
                         channels |-> << Channel("PartialDepth",
                                                 [ symbol |-> "ETHUSDT", level |-> "Five",
                                                   speed |-> "HundredMillis" ]) >> ])
    /\ Len(wire) = 2 /\ wire[2].ok
    /\ Rendered(wire[2]) = "ethusdt@depth5@100ms"

\* A dispatched limit order for BNBUSDT, Buy, price 30.5, quantity 1.0 on which
\* no setter changed the record the constructor made.
PlainLimitOrder ==
    /\ request # None
    /\ pb[1].kind = "LimitOrderParams"
    /\ [ f \in Fields \ EngineOwned |-> pb[1].params[f] ] =
          [ f \in Fields \ EngineOwned |->
              ParametersWith([ symbol |-> Some("BNBUSDT"), side |-> Some("Buy"),
                               order_type |-> Some("Limit"), price |-> Some(305),
                               quantity |-> Some(10),
                               time_in_force |-> Some("Gtc") ])[f] ]

NameSeq(pairs) == [ i \in 1..Len(pairs) |-> pairs[i].name ]

SignedPost ==
    /\ request[1].method = "POST"
    /\ request[1].query = <<>>
    /\ request[1].body # None
    /\ HeaderValues(request[1], "Content-Type") = { "application/x-www-form-urlencoded" }

\* C23 as stated: the form body of that order has exactly the fields symbol,
\* side, type, price, quantity, timeInForce, timestamp, signature, in this
\* order.
C23_BodyInSpecOrder ==
    PlainLimitOrder =>
        /\ SignedPost
        /\ NameSeq(request[1].body[1]) =
              << "symbol", "side", "type", "price", "quantity", "timeInForce",
                 "timestamp", "signature" >>

\* C23 amended: the form body of that order has exactly the fields
\* symbol=BNBUSDT, side=BUY, type=LIMIT, timeInForce=GTC, quantity, price,
\* timestamp, signature, in this order (the order of declaration of the
\* fields), the signature being the HMAC-SHA256 hex digest.
C23_BodyInFieldOrder ==
    PlainLimitOrder =>
        /\ SignedPost
        /\ LET body == request[1].body[1]
           IN  /\ NameSeq(body) =
                     << "symbol", "side", "type", "timeInForce", "quantity", "price",
                        "timestamp", "signature" >>
               /\ [ i \in 1..6 |-> body[i].value ] =
                     << Text("BNBUSDT"), Text("BUY"), Text("LIMIT"), Text("GTC"),
                        Text("1.0"), Text("30.5") >>
               /\ body[7].value = Text(ToString(sentAt[1]))
               /\ DOMAIN body[8].value = { "hmac_sha256_hex" }
               /\ body[8].value.hmac_sha256_hex.key = pb[1].secret_key[1]

C23_Witness ==
    /\ PlainLimitOrder
    /\ Len(request[1].body[1]) = 8
    /\ request[1].body[1][8].name = "signature"
    /\ outcome # None

\* Values of the type of each field, two per field.
Variants(f) ==
    CASE f \in StrFields -> { "BNBUSDT", "ETHBTC" }
      [] f \in IntFields -> { 1, 2 }
      [] f \in F64Fields -> { 305, 302 }
      [] f \in TifFields -> { "Gtc", "Ioc" }
      [] f = "interval" -> { "OneMinute", "OneHour" }
      [] f = "side" -> { "Buy", "Sell" }
      [] f = "order_type" -> { "Limit", "Market" }
      [] f = "new_order_resp_type" -> { "Ack", "Full" }
      [] f = "status" -> { [ json |-> "Number", n |-> 1 ], [ json |-> "String", s |-> "1" ] }

\* The records that differ from p in the value or the presence of field f.
Differing(p, f) ==
    { q \in { [ p EXCEPT ![f] = o ] : o \in { None } \cup { Some(v) : v \in Variants(f) } } :
        q # p }

FieldIndex(name) == CHOOSE i \in 1..Len(FieldOrder) : WireName[FieldOrder[i]] = name

\* The message that sign hashes is the payload without its last pair.
SignedMessage(s) == to_string([ s.params EXCEPT !["signature"] = None ]).val

\* sign is a function of the record, the secret and the clock: the message
\* lists exactly the present fields, each once, in the order of declaration,
\* and the signature is the digest of that message under the secret.
Canonical(p, k) ==
    LET s == sign(p, k)
    IN  s.ok =>
          LET m == SignedMessage(s)
          IN  /\ \A i, j \in 1..Len(m) : i < j => FieldIndex(m[i].name) < FieldIndex(m[j].name)
              /\ Names(m) = { WireName[f] : f \in Present(p) \cup { "timestamp" } }
              /\ \A i \in 1..Len(m) :
                    LET f == FieldOrder[FieldIndex(m[i].name)]
                    IN  m[i].value = RenderValue(f, s.params[f][1])
              /\ s.params["timestamp"] = Some(now)
              /\ s.params["signature"] = Some(HmacSha256Hex(k, m))

\* Two setters of different fields called in either order give the same
\* signed record.
EitherOrder(p, k) ==
    LET caps == Capabilities[pb[1].kind]
    IN  /\ { "NewClientOrderId", "RecvWindow" } \subseteq caps =>
              sign(with_recv_window(with_new_client_order_id(p, "id-1"), 8000), k) =
              sign(with_new_client_order_id(with_recv_window(p, 8000), "id-1"), k)
        /\ { "StartTime", "EndTime" } \subseteq caps =>
              sign(with_start_time(with_end_time(p, 2), 1), k) =
              sign(with_end_time(with_start_time(p, 1), 2), k)
        /\ { "NewOrderRespType", "RecvWindow" } \subseteq caps =>
              sign(with_new_order_resp_type(with_recv_window(p, 8000), "Full"), k) =
              sign(with_recv_window(with_new_order_resp_type(p, "Full"), 8000), k)

\* Same number as JSON number and as JSON string: the one pair of status
\* values that is written with the same text.
SameText(f, a, b) ==
    /\ f = "status"
    /\ a # None /\ b # None
    /\ ValueSupported(f, a[1]) /\ ValueSupported(f, b[1])
    /\ RenderValue(f, a[1]) = RenderValue(f, b[1])

\* The message whose digest the signature of a signed record is.
Hashed(s) == s.params["signature"][1].hmac_sha256_hex.message

\* s is the signed record of p; q is another record signed with the same key.
Distinguishes(s, k, q) ==
    LET t == sign(q, k)
    IN  (s.ok /\ t.ok) =>
          /\ Hashed(s) # Hashed(t)
          /\ s.params["signature"] # t.params["signature"]

\* The fields that a builder of this request-kind can hold, fixed by the
\* engine excepted.
Varied(kind) == (Constructed(kind) \cup Settable(kind)) \ EngineOwned

SignedBuilder == phase = "building" /\ pb[1].secret_key # None

\* C24 as stated: signing is a function of the record in one canonical field
\* order, the same whatever order the setters were called in, and two records
\* that differ in the value or the presence of any one field are signed as
\* different messages.
C24_AnyFieldChangesMessage ==
    SignedBuilder =>
        LET p == pb[1].params
            k == pb[1].secret_key[1]
        IN  /\ Canonical(p, k)
            /\ EitherOrder(p, k)
            /\ \A f \in Varied(pb[1].kind) : \A q \in Differing(p, f) :
                  Distinguishes(sign(p, k), k, q)

\* C24 amended: signing is a function of the record in one canonical field
\* order, the same whatever order the setters were called in, and two records
\* that differ in the presence of any one field, or in its value other than
\* by status being the same text once as a JSON number and once as a JSON
\* string, are signed as different messages.
C24_SigningDeterministic ==
    SignedBuilder =>
        LET p == pb[1].params
            k == pb[1].secret_key[1]
        IN  /\ Canonical(p, k)
            /\ EitherOrder(p, k)
            /\ \A f \in Varied(pb[1].kind) : \A q \in Differing(p, f) :
                  ~SameText(f, p[f], q[f]) => Distinguishes(sign(p, k), k, q)

C24_Witness ==
    /\ SignedBuilder
    /\ pb[1].kind = "LimitOrderParams"
    /\ pb[1].params["recv_window"] # None
    /\ pb[1].params["new_client_order_id"] # None
    /\ sign(pb[1].params, pb[1].secret_key[1]).ok

Dispatch == phase = "building" /\ phase' = "consumed"

\* A record that serde_urlencoded refuses: signing or the serialization of
\* the payload fails on it.
Unencodable(p) == \E f \in Fields : p[f] # None /\ ~ValueSupported(f, p[f][1])

ControlHanded == { i \in 1..Len(wire) : IsControl(wire[i]) }

\* C26: no two control frames handed to the transport in one session carry
\* the same request id, a frame that a failed send left queued included.
C26_NoRepeatedId ==
    \A i, j \in ControlHanded :
        wire[i].frame.json.id = wire[j].frame.json.id => i = j

SendsPingOrPong ==
    /\ Len(wire') = Len(wire) + 1
    /\ wire'[Len(wire')].frame.type \in { "Ping", "Pong" }

\* C27: with a peer that answers every ping with one pong of the same payload
\* and sends finitely many unsolicited pings and pongs, and a caller that
\* keeps calling text(), from some point on the client sends no further ping
\* or pong.
C27_PingPongEnds == <>[][~SendsPingOrPong]_vars

\* C28: a text() call that returns an error while handling an inbound ping
\* or pong frame has handed no reply frame to the transport; a reply goes out
\* only in a call that returns the synthetic event.
C28_NoReplyOnError ==
    [][ ((ReadFrame("Ping") \/ ReadFrame("Pong"))
           /\ lastIn'[1].call = "text" /\ ~lastRead'[1].ok) =>
              wire' = wire ]_vars

Converts ==
    /\ pb # None /\ pb' # None
    /\ pb[1].kind # "LimitMakerOrderParams"
    /\ pb'[1].kind = "LimitMakerOrderParams"

\* The fields a limit-maker order can carry: those of its constructor and
\* those of the setters its capabilities give.
LimitMakerFields ==
    { "symbol", "side", "price", "quantity",
      "new_client_order_id", "new_order_resp_type", "recv_window" }

\* C29: into_limit_maker_order keeps every field set before the conversion
\* that the limit-maker kind supports (symbol, side, price, quantity,
\* newClientOrderId, newOrderRespType, recvWindow), with the same value, in
\* the record that is then dispatched.
C29_ConversionKeepsFields ==
    [][ Converts =>
          \A f \in LimitMakerFields : pb'[1].params[f] = pb[1].params[f] ]_vars

\* C30: every request dispatched from a limit-maker builder has type
\* LIMIT_MAKER and carries no timeInForce, stopPrice or icebergQty, whatever
\* setters were called before or after into_limit_maker_order.
C30_LimitMakerRecord ==
    (request # None /\ pb[1].kind = "LimitMakerOrderParams") =>
        LET sent == Payload(request[1])
        IN  /\ Has(sent, "type", "LIMIT_MAKER")
            /\ Cardinality({ i \in 1..Len(sent) : sent[i].name = "type" }) = 1
            /\ Names(sent) \cap { "timeInForce", "stopPrice", "icebergQty" } = {}

C30_Witness ==
    /\ request # None
    /\ pb[1].kind = "LimitMakerOrderParams"
    /\ Has(Payload(request[1]), "recvWindow", "8000")
    /\ Has(Payload(request[1]), "type", "LIMIT_MAKER")
    /\ reply # None /\ reply[1].sent

====
